---- MODULE Spec2Model ----
(***************************************************************************)
(* Workout-Tracker backend: PR detection (services/pr_detection.py and the *)
(* set endpoints of api/v1/endpoints/workouts.py, with their session       *)
(* limits), the streak endpoint (api/v1/endpoints/streak.py), calorie      *)
(* estimation (services/calorie_estimation.py), body analytics             *)
(* (services/body_analytics.py) and muscle recovery                        *)
(* (api/v1/endpoints/analytics.py).                                        *)
(*                                                                         *)
(* Units.  Weights are integers in grams (1 kg = 1000), so that a request  *)
(* can carry a weight finer than the 0.01 kg the workout_sets.weight       *)
(* column (Numeric(8, 2)) keeps.  Volumes are gram-reps.  Durations are    *)
(* integer seconds; calories are integers in tenths of a kcal.  The body   *)
(* analytics and recovery sections state their own units.                  *)
(***************************************************************************)
EXTENDS Integers, FiniteSets, Sequences, TLC

VARIABLES
    sets,          \* committed rows of table workout_sets
    req,           \* per in-flight add_set request: position and locals
    prCall,        \* one call of detect_pr: candidate and result
    workoutDates,  \* started_at dates of the stored workouts (day numbers)
    today,         \* date.today(), the server's local date (day number)
    utcToday,      \* datetime.now(timezone.utc).date() (day number)
    streak,        \* last response of get_streak
    calCall,       \* one call of estimate_calories: arguments and result
    durCall,       \* one call of get_active_duration_minutes
    resp,          \* HTTP status of the last set request served
    bodyCall,      \* one call of compute_all_stats: arguments and result
    bmrCall,       \* calc_bmr called for both sexes on one profile
    symCall,       \* one call of calc_symmetry
    recCall,       \* one request to muscle_recovery: clock and response
    bodyLog,       \* the stored body log and the last request made on it
    plateauCall,   \* one request to plateau_alerts, for one exercise
    workout,       \* one stored workout and the last PATCH made on it
    kcalCall,      \* one workout's calories by get_workout and calories_history
    rmCall,        \* one evaluation of both Brzycki 1RM implementations
    plateCall      \* one call of _plate_calc: locals and loop position

prVars     == <<sets, req, prCall, resp>>
streakVars == <<workoutDates, today, utcToday, streak>>
calVars    == <<calCall, durCall>>
bodyVars   == <<bodyCall, bmrCall, symCall>>
recVars    == <<recCall>>
apiVars    == <<bodyLog, plateauCall, workout, kcalCall, rmCall, plateCall>>
vars       == <<sets, req, prCall, workoutDates, today, utcToday, streak,
                calCall, durCall, resp, bodyCall, bmrCall, symCall, recCall,
                bodyLog, plateauCall, workout, kcalCall, rmCall, plateCall>>

(***************************************************************************)
(* Optional values (Python None / SQL NULL).                               *)
(***************************************************************************)
None    == {}
Some(v) == {v}
Get(x)  == CHOOSE v \in x : TRUE

MaxOf(S) == CHOOSE m \in S : \A x \in S : x <= m
MinOf(S) == CHOOSE m \in S : \A x \in S : m <= x

Kg(n) == n * 1000

(***************************************************************************)
(* PRType                                                                  *)
(***************************************************************************)
WEIGHT   == "weight"
VOLUME   == "volume"
DURATION == "duration"

(***************************************************************************)
(* detect_pr: the three aggregate queries and the decision.                *)
(***************************************************************************)
\* `r.scalar() or 0`: SQL max() over no rows (or only NULLs) is NULL -> 0.
ScalarOr0(S) == IF S = {} THEN 0 ELSE MaxOf(S)

\* select max(weight) where exercise_id = ex   (max() skips NULLs)
max_weight(tbl, ex) ==
    ScalarOr0({Get(s.weight) : s \in {t \in tbl : t.exercise_id = ex /\ t.weight # None}})

\* select max(weight * reps) where exercise_id = ex, weight and reps not NULL
max_volume(tbl, ex) ==
    ScalarOr0({Get(s.weight) * Get(s.reps) :
                 s \in {t \in tbl : /\ t.exercise_id = ex
                                    /\ t.weight # None
                                    /\ t.reps # None}})

\* select max(duration_seconds) where exercise_id = ex
max_duration(tbl, ex) ==
    ScalarOr0({Get(s.duration_seconds) :
                 s \in {t \in tbl : t.exercise_id = ex /\ t.duration_seconds # None}})

PrDecisionTiesCount(weight, reps, duration_seconds, mw, mv, md) ==
    IF weight # None /\ Get(weight) >= mw
    THEN <<TRUE, Some(WEIGHT)>>
    ELSE IF weight # None /\ reps # None /\ Get(weight) * Get(reps) >= mv
    THEN <<TRUE, Some(VOLUME)>>
    ELSE IF duration_seconds # None /\ Get(duration_seconds) >= md
    THEN <<TRUE, Some(DURATION)>>
    ELSE <<FALSE, None>>

PrDecisionVolumeFirst(weight, reps, duration_seconds, mw, mv, md) ==
    IF weight # None /\ reps # None /\ Get(weight) * Get(reps) > mv
    THEN <<TRUE, Some(VOLUME)>>
    ELSE IF weight # None /\ Get(weight) > mw
    THEN <<TRUE, Some(WEIGHT)>>
    ELSE IF duration_seconds # None /\ Get(duration_seconds) > md
    THEN <<TRUE, Some(DURATION)>>
    ELSE <<FALSE, None>>

\* Lines 46-52: first match wins, strict comparisons.
PrDecision(weight, reps, duration_seconds, mw, mv, md) ==
    IF weight # None /\ Get(weight) > mw
    THEN <<TRUE, Some(WEIGHT)>>
    ELSE IF weight # None /\ reps # None /\ Get(weight) * Get(reps) > mv
    THEN <<TRUE, Some(VOLUME)>>
    ELSE IF duration_seconds # None /\ Get(duration_seconds) > md
    THEN <<TRUE, Some(DURATION)>>
    ELSE <<FALSE, None>>

detect_pr(tbl, ex, weight, reps, duration_seconds) ==
    PrDecision(weight, reps, duration_seconds,
               max_weight(tbl, ex), max_volume(tbl, ex), max_duration(tbl, ex))

(***************************************************************************)
(* Rows of workout_sets.  Only the columns the set endpoints and detect_pr *)
(* read or write are kept; set_order, notes, set_label, the tension and    *)
(* rest columns are payload that no decision reads.                        *)
(***************************************************************************)
Row(id, wid, ex, weight, reps, dur, is_pr, pr_type) ==
    [id |-> id, workout_id |-> wid, exercise_id |-> ex, weight |-> weight,
     reps |-> reps, duration_seconds |-> dur, is_pr |-> is_pr, pr_type |-> pr_type]

(***************************************************************************)
(* Components that a specification does not exercise stay at rest.         *)
(***************************************************************************)
NoCall == [done |-> FALSE]

DbAtRest     == sets = {} /\ req = <<>> /\ resp = None
DetectAtRest == prCall = NoCall
StreakAtRest == workoutDates = {} /\ today = 0 /\ utcToday = 0 /\ streak = NoCall
CalAtRest    == calCall = NoCall /\ durCall = NoCall
BodyAtRest   == bodyCall = NoCall /\ bmrCall = NoCall /\ symCall = NoCall
RecAtRest    == recCall = NoCall
LogAtRest     == bodyLog = NoCall
PlateauAtRest == plateauCall = NoCall
WorkoutAtRest == workout = NoCall
KcalAtRest    == kcalCall = NoCall
RmAtRest      == rmCall = NoCall
PlateAtRest   == plateCall = NoCall
ApiAtRest    == LogAtRest /\ PlateauAtRest /\ WorkoutAtRest /\ KcalAtRest /\ RmAtRest /\ PlateAtRest

(***************************************************************************)
(* SpecDetect: detect_pr applied to a table of prior sets and a candidate. *)
(***************************************************************************)
PriorRows ==
    { Row(1, 1, 1, Some(Kg(120)), Some(5),  None,     FALSE, None),
      Row(2, 1, 1, Some(Kg(85)),  Some(10), None,     FALSE, None),
      Row(3, 1, 1, Some(Kg(100)), None,     None,     FALSE, None),
      Row(4, 2, 1, None,          None,     Some(60), FALSE, None),
      Row(5, 2, 2, Some(Kg(130)), Some(10), Some(90), FALSE, None) }

CandWeights   == {None, Some(0), Some(Kg(90)), Some(Kg(100)), Some(Kg(120))}
CandReps      == {None, Some(0), Some(5), Some(10)}
CandDurations == {None, Some(0), Some(60), Some(90)}
CandExercises == {1, 2}

InitDetect ==
    /\ sets \in SUBSET PriorRows
    /\ req = <<>> /\ resp = None
    /\ prCall \in [done : {FALSE}, exercise_id : CandExercises, weight : CandWeights,
                   reps : CandReps, duration_seconds : CandDurations]
    /\ StreakAtRest /\ CalAtRest /\ BodyAtRest /\ RecAtRest
    /\ ApiAtRest

DetectPr ==
    /\ prCall.done = FALSE
    /\ LET r == detect_pr(sets, prCall.exercise_id, prCall.weight, prCall.reps,
                          prCall.duration_seconds)
       IN prCall' = [done |-> TRUE, exercise_id |-> prCall.exercise_id,
                     weight |-> prCall.weight, reps |-> prCall.reps,
                     duration_seconds |-> prCall.duration_seconds,
                     is_pr |-> r[1], pr_type |-> r[2]]
    /\ UNCHANGED <<sets, req, resp>>
    /\ UNCHANGED streakVars /\ UNCHANGED calVars
    /\ UNCHANGED bodyVars /\ UNCHANGED recVars
    /\ UNCHANGED apiVars

NextDetect == DetectPr

SpecDetect == InitDetect /\ [][NextDetect]_vars

(***************************************************************************)
(* Claims about detect_pr (SpecDetect).  The prior bests are restated here *)
(* from the table, without the query operators above.                      *)
(***************************************************************************)
PriorOf(ex) == {s \in sets : s.exercise_id = ex}
PriorWeights(ex) == {Get(s.weight) : s \in {t \in PriorOf(ex) : t.weight # None}}
PriorVolumes(ex) ==
    {Get(s.weight) * Get(s.reps) :
        s \in {t \in PriorOf(ex) : t.weight # None /\ t.reps # None}}
PriorDurations(ex) ==
    {Get(s.duration_seconds) : s \in {t \in PriorOf(ex) : t.duration_seconds # None}}

\* v is strictly above the prior best of S, the best of no values being 0
Exceeds(v, S) == v > 0 /\ \A x \in S : v > x
\* v equals the prior best of S, the best of no values being 0
Ties(v, S) == IF S = {} THEN v = 0 ELSE v \in S /\ \A x \in S : x <= v

ByWeight ==
    prCall.weight # None /\ Exceeds(Get(prCall.weight), PriorWeights(prCall.exercise_id))
ByVolume ==
    /\ prCall.weight # None
    /\ prCall.reps # None
    /\ Exceeds(Get(prCall.weight) * Get(prCall.reps), PriorVolumes(prCall.exercise_id))
ByDuration ==
    /\ prCall.duration_seconds # None
    /\ Exceeds(Get(prCall.duration_seconds), PriorDurations(prCall.exercise_id))

\* C1: detect_pr decides in the order weight, volume, duration and the first
\* match wins: WEIGHT when the weight exceeds the prior max weight, else VOLUME
\* when weight*reps exceeds the prior max volume, else DURATION when the
\* duration exceeds the prior max duration, else (false, null).
C1_DecisionOrder ==
    prCall.done =>
        /\ ByWeight => (prCall.is_pr /\ prCall.pr_type = Some(WEIGHT))
        /\ (~ByWeight /\ ByVolume) => (prCall.is_pr /\ prCall.pr_type = Some(VOLUME))
        /\ (~ByWeight /\ ~ByVolume /\ ByDuration)
              => (prCall.is_pr /\ prCall.pr_type = Some(DURATION))
        /\ (~ByWeight /\ ~ByVolume /\ ~ByDuration)
              => (~prCall.is_pr /\ prCall.pr_type = None)

\* weight 90 kg x 10 reps against max weight 120 kg and max volume 850 kg-reps
C1_Witness ==
    /\ prCall.done
    /\ prCall.exercise_id = 1
    /\ prCall.weight = Some(Kg(90)) /\ prCall.reps = Some(10)
    /\ PriorWeights(1) = {Kg(120), Kg(85)}
    /\ PriorVolumes(1) = {Kg(600), Kg(850)}
    /\ prCall.is_pr /\ prCall.pr_type = Some(VOLUME)

\* C2: comparisons are strict: a candidate that only ties the prior max weight,
\* the prior max volume and the prior max duration (each where it carries the
\* value) is not a PR; with no prior sets the maxima are 0, so a candidate of
\* weight 0, volume 0 and duration 0 is not a PR.
C2_TiesAreNotRecords ==
    prCall.done =>
        LET ex == prCall.exercise_id
            tieW == prCall.weight = None \/ Ties(Get(prCall.weight), PriorWeights(ex))
            tieV == \/ prCall.weight = None
                    \/ prCall.reps = None
                    \/ Ties(Get(prCall.weight) * Get(prCall.reps), PriorVolumes(ex))
            tieD == \/ prCall.duration_seconds = None
                    \/ Ties(Get(prCall.duration_seconds), PriorDurations(ex))
        IN (tieW /\ tieV /\ tieD) => (~prCall.is_pr /\ prCall.pr_type = None)

\* a three-way tie: 120 kg x 5 reps for 60 s against bests 120 kg, 600, 60 s
C2_Witness ==
    /\ prCall.done
    /\ prCall.exercise_id = 1
    /\ prCall.weight = Some(Kg(120)) /\ prCall.reps = Some(5)
    /\ prCall.duration_seconds = Some(60)
    /\ PriorWeights(1) = {Kg(120)}
    /\ PriorVolumes(1) = {Kg(600)}
    /\ PriorDurations(1) = {60}
    /\ ~prCall.is_pr

\* reachable as well: no prior sets and an all-zero candidate
C2_ZeroCandidateSeen ==
    /\ prCall.done
    /\ PriorOf(prCall.exercise_id) = {}
    /\ prCall.weight = Some(0) /\ prCall.reps = Some(0)
    /\ prCall.duration_seconds = Some(0)
    /\ ~prCall.is_pr

(***************************************************************************)
(* The set endpoints of workouts.py, each request served alone             *)
(* (SpecSerial): the whole handler, commit included, is one step.          *)
(***************************************************************************)
MAX_EXERCISES_PER_SESSION == 20
MAX_SETS_PER_EXERCISE_PER_SESSION == 10

MaxRows == 2

Workouts  == {1, 2}
Exercises == {1, 2}

\* weight: float in WorkoutSetBase; 1.004 kg is a value the column cannot keep
PayloadWeights   == {None, Some(Kg(1)), Some(Kg(1) + 4), Some(Kg(2))}
PayloadReps      == {None, Some(2)}
PayloadDurations == {None, Some(30)}

\* Numeric(8, 2): the value is rounded to 0.01 kg (10 g), half away from zero.
RoundNumeric2(g) ==
    IF g >= 0 THEN ((g + 5) \div 10) * 10 ELSE 0 - (((0 - g) + 5) \div 10) * 10

\* The weight as the row holds it after flush and refresh.
StoredWeight(w) == IF w = None THEN None ELSE Some(RoundNumeric2(Get(w)))

\* id: default=uuid.uuid4 -- any unused key; the smallest one is taken.
FreshId(tbl) ==
    MinOf({i \in 1..(Cardinality(tbl) + 1) : \A s \in tbl : s.id # i})

\* count(distinct exercise_id) where workout_id = wid
n_exercises(tbl, wid) ==
    Cardinality({s.exercise_id : s \in {t \in tbl : t.workout_id = wid}})

\* count(case when exercise_id = ex) where workout_id = wid
n_sets_this_ex(tbl, wid, ex) ==
    Cardinality({s \in tbl : s.workout_id = wid /\ s.exercise_id = ex})

LimitReachedAboveOnly(nEx, nSets) ==
    \/ nSets > MAX_SETS_PER_EXERCISE_PER_SESSION
    \/ (nEx > MAX_EXERCISES_PER_SESSION /\ nSets = 0)

\* Lines 228-237: the two HTTP 400 rejections.
LimitReached(nEx, nSets) ==
    \/ nSets >= MAX_SETS_PER_EXERCISE_PER_SESSION
    \/ (nEx >= MAX_EXERCISES_PER_SESSION /\ nSets = 0)

NewSetWithoutType(id, wid, ex, weight, reps, dur, flag) ==
    Row(id, wid, ex, StoredWeight(weight), reps, dur, flag[1], None)

\* Lines 246-252: the row built from the payload and the detect_pr result.
NewSet(id, wid, ex, weight, reps, dur, flag) ==
    Row(id, wid, ex, StoredWeight(weight), reps, dur, flag[1], flag[2])

\* HTTP status codes of the set endpoints
CREATED     == 201
OK          == 200
NO_CONTENT  == 204
BAD_REQUEST == 400
NOT_FOUND   == 404

\* The workout exists (line 213 passes); the limits answer 400 and store
\* nothing, otherwise the set is inserted with the flags of detect_pr.
add_set_to_workout(wid, ex, weight, reps, dur) ==
    /\ IF LimitReached(n_exercises(sets, wid), n_sets_this_ex(sets, wid, ex))
       THEN /\ resp' = Some(BAD_REQUEST)
            /\ UNCHANGED sets
       ELSE /\ sets' = sets \cup
                         {NewSet(FreshId(sets), wid, ex, weight, reps, dur,
                                 detect_pr(sets, ex, weight, reps, dur))}
            /\ resp' = Some(CREATED)
    /\ UNCHANGED <<req, prCall>>
    /\ UNCHANGED streakVars /\ UNCHANGED calVars
    /\ UNCHANGED bodyVars /\ UNCHANGED recVars
    /\ UNCHANGED apiVars

\* PATCH: payload.model_dump(exclude_unset=True); a field is {} when unset
\* and {v} when the body carries it (v itself optional: null is a value).
Unset == {}
Patched(old, field) == IF field = Unset THEN old ELSE Get(field)

\* select ... where id = set_id and workout_id = workout_id
FindSet(tbl, wid, id) == {s \in tbl : s.id = id /\ s.workout_id = wid}

update_set_clearing_flags(wid, id, weight, reps, dur) ==
    /\ IF FindSet(sets, wid, id) = {}
       THEN /\ resp' = Some(NOT_FOUND)
            /\ UNCHANGED sets
       ELSE LET s == Get(FindSet(sets, wid, id))
            IN /\ sets' = (sets \ {s}) \cup
                     {[s EXCEPT !.weight = StoredWeight(Patched(s.weight, weight)),
                                !.reps = Patched(s.reps, reps),
                                !.duration_seconds = Patched(s.duration_seconds, dur),
                                !.is_pr = FALSE, !.pr_type = None]}
               /\ resp' = Some(OK)
    /\ UNCHANGED <<req, prCall>>
    /\ UNCHANGED streakVars /\ UNCHANGED calVars
    /\ UNCHANGED bodyVars /\ UNCHANGED recVars
    /\ UNCHANGED apiVars

update_set(wid, id, weight, reps, dur) ==
    /\ IF FindSet(sets, wid, id) = {}
       THEN /\ resp' = Some(NOT_FOUND)
            /\ UNCHANGED sets
       ELSE LET s == Get(FindSet(sets, wid, id))
            IN /\ sets' = (sets \ {s}) \cup
                     {[s EXCEPT !.weight = StoredWeight(Patched(s.weight, weight)),
                                !.reps = Patched(s.reps, reps),
                                !.duration_seconds = Patched(s.duration_seconds, dur)]}
               /\ resp' = Some(OK)
    /\ UNCHANGED <<req, prCall>>
    /\ UNCHANGED streakVars /\ UNCHANGED calVars
    /\ UNCHANGED bodyVars /\ UNCHANGED recVars
    /\ UNCHANGED apiVars

delete_set(wid, id) ==
    /\ IF FindSet(sets, wid, id) = {}
       THEN /\ resp' = Some(NOT_FOUND)
            /\ UNCHANGED sets
       ELSE /\ sets' = sets \ FindSet(sets, wid, id)
            /\ resp' = Some(NO_CONTENT)
    /\ UNCHANGED <<req, prCall>>
    /\ UNCHANGED streakVars /\ UNCHANGED calVars
    /\ UNCHANGED bodyVars /\ UNCHANGED recVars
    /\ UNCHANGED apiVars

InitSerial ==
    /\ DbAtRest /\ DetectAtRest /\ StreakAtRest /\ CalAtRest
    /\ BodyAtRest /\ RecAtRest
    /\ ApiAtRest

AddSetRequest ==
    \E wid \in Workouts, ex \in Exercises, weight \in PayloadWeights,
       reps \in PayloadReps, dur \in PayloadDurations :
        /\ Cardinality(sets) < MaxRows
        /\ add_set_to_workout(wid, ex, weight, reps, dur)

UpdateSetRequest ==
    \E wid \in Workouts, id \in 1..MaxRows,
       weight \in {Unset} \cup {Some(w) : w \in PayloadWeights},
       reps \in {Unset} \cup {Some(r) : r \in PayloadReps},
       dur \in {Unset} \cup {Some(d) : d \in PayloadDurations} :
        update_set(wid, id, weight, reps, dur)

DeleteSetRequest ==
    \E wid \in Workouts, id \in 1..MaxRows : delete_set(wid, id)

NextSerial == AddSetRequest \/ UpdateSetRequest \/ DeleteSetRequest

SpecSerial == InitSerial /\ [][NextSerial]_vars

\* C3: served serially, every set stored with pr_type WEIGHT has a weight
\* strictly greater than the weight of every set of that exercise that was
\* stored at the moment it was inserted.
C3_WeightPrExceedsStored ==
    [][\A r \in sets' :
          ((\A s \in sets : s.id # r.id) /\ r.pr_type = Some(WEIGHT)) =>
              /\ r.weight # None
              /\ \A s \in sets :
                    (s.exercise_id = r.exercise_id /\ s.weight # None)
                        => Get(r.weight) > Get(s.weight)]_vars

(***************************************************************************)
(* add_set_to_workout requests served concurrently (SpecConc).  Each       *)
(* request has its own session and transaction (get_db) and gives up       *)
(* control at every await: the counts query, the three queries of          *)
(* detect_pr, the flush, and the commit of get_db.  A query sees the rows  *)
(* committed when it runs (PostgreSQL's default READ COMMITTED).           *)
(***************************************************************************)
Procs == {1, 2}

MaxConcRows == 3

ConcWorkouts  == {1}
ConcWeights   == {Some(Kg(1)), Some(Kg(2))}
ConcReps      == {None, Some(2)}
ConcDurations == {None}

Idle == [pc |-> "idle"]

InFlight == {p \in Procs : req[p].pc \notin {"idle", "done"}}

\* rows flushed by a transaction that has not committed yet
Pending == UNION {req[p].row : p \in {q \in Procs : req[q].pc = "commit"}}

InitConc ==
    /\ sets = {}
    /\ req = [p \in Procs |-> Idle]
    /\ resp = None
    /\ DetectAtRest /\ StreakAtRest /\ CalAtRest /\ BodyAtRest /\ RecAtRest
    /\ ApiAtRest

Others ==
    /\ UNCHANGED <<prCall, resp>>
    /\ UNCHANGED streakVars /\ UNCHANGED calVars
    /\ UNCHANGED bodyVars /\ UNCHANGED recVars
    /\ UNCHANGED apiVars

\* Lines 211-214: the request arrives and finds its workout.
Begin(p) ==
    /\ req[p].pc \in {"idle", "done"}
    /\ Cardinality(sets) + Cardinality(InFlight) < MaxConcRows
    /\ \E wid \in ConcWorkouts, ex \in Exercises, weight \in ConcWeights,
          reps \in ConcReps, dur \in ConcDurations :
          req' = [req EXCEPT ![p] =
                    [pc |-> "counts", workout_id |-> wid, exercise_id |-> ex,
                     weight |-> weight, reps |-> reps, duration_seconds |-> dur,
                     max_weight |-> 0, max_volume |-> 0, max_duration |-> 0,
                     row |-> None]]
    /\ UNCHANGED sets /\ Others

\* Lines 216-237: counts query and the limits; HTTP 400 ends the request.
ReadCounts(p) ==
    /\ req[p].pc = "counts"
    /\ req' = [req EXCEPT ![p] =
                 IF LimitReached(n_exercises(sets, req[p].workout_id),
                                 n_sets_this_ex(sets, req[p].workout_id,
                                                req[p].exercise_id))
                 THEN Idle
                 ELSE [req[p] EXCEPT !.pc = "q_weight"]]
    /\ UNCHANGED sets /\ Others

\* pr_detection.py lines 23-26
QueryMaxWeight(p) ==
    /\ req[p].pc = "q_weight"
    /\ req' = [req EXCEPT ![p].max_weight = max_weight(sets, req[p].exercise_id),
                          ![p].pc = "q_volume"]
    /\ UNCHANGED sets /\ Others

\* pr_detection.py lines 29-36
QueryMaxVolume(p) ==
    /\ req[p].pc = "q_volume"
    /\ req' = [req EXCEPT ![p].max_volume = max_volume(sets, req[p].exercise_id),
                          ![p].pc = "q_duration"]
    /\ UNCHANGED sets /\ Others

\* pr_detection.py lines 39-44
QueryMaxDuration(p) ==
    /\ req[p].pc = "q_duration"
    /\ req' = [req EXCEPT ![p].max_duration = max_duration(sets, req[p].exercise_id),
                          ![p].pc = "flush"]
    /\ UNCHANGED sets /\ Others

FreshMaxima(p) ==
    <<max_weight(sets \cup Pending, req[p].exercise_id),
      max_volume(sets \cup Pending, req[p].exercise_id),
      max_duration(sets \cup Pending, req[p].exercise_id)>>

\* The locals max_weight, max_volume, max_duration of detect_pr, as the three
\* queries left them.
SeenMaxima(p) == <<req[p].max_weight, req[p].max_volume, req[p].max_duration>>

\* pr_detection.py lines 46-52 and workouts.py lines 246-255: the decision on
\* the maxima read above, and the INSERT inside the open transaction.
Flush(p) ==
    /\ req[p].pc = "flush"
    /\ LET r  == req[p]
           id == FreshId(sets \cup Pending)
       IN req' = [req EXCEPT ![p].row =
                     Some(NewSet(id, r.workout_id, r.exercise_id, r.weight, r.reps,
                                 r.duration_seconds,
                                 PrDecision(r.weight, r.reps, r.duration_seconds,
                                            SeenMaxima(p)[1], SeenMaxima(p)[2],
                                            SeenMaxima(p)[3]))),
                              ![p].pc = "commit"]
    /\ UNCHANGED sets /\ Others

\* session.py line 33: the handler has returned, get_db commits.
Commit(p) ==
    /\ req[p].pc = "commit"
    /\ sets' = sets \cup req[p].row
    /\ req' = [req EXCEPT ![p].pc = "done"]
    /\ Others

NextConc ==
    \E p \in Procs :
        \/ Begin(p)
        \/ ReadCounts(p)
        \/ QueryMaxWeight(p)
        \/ QueryMaxVolume(p)
        \/ QueryMaxDuration(p)
        \/ Flush(p)
        \/ Commit(p)

SpecConc == InitConc /\ [][NextConc]_vars

\* Two finished requests for one exercise that read the same max weight, each
\* with a weight above it: the second read happened before the first commit.
Raced(p, q) ==
    /\ p # q
    /\ req[p].pc = "done" /\ req[q].pc = "done"
    /\ req[p].exercise_id = req[q].exercise_id
    /\ req[p].max_weight = req[q].max_weight
    /\ Get(req[p].weight) > req[p].max_weight
    /\ Get(req[q].weight) > req[q].max_weight

\* C4: the PR race is accepted: when two concurrent add_set requests for the
\* same exercise both read the all-time max weight before either inserts and
\* both weights exceed it, both sets are stored with is_pr = true and
\* pr_type WEIGHT against that same stale maximum, whatever the order of the
\* two weights.
C4_RaceFlagsBoth ==
    \A p \in Procs, q \in Procs :
        Raced(p, q) =>
            \A r \in req[p].row \cup req[q].row :
                r \in sets /\ r.is_pr /\ r.pr_type = Some(WEIGHT)

\* both candidates weigh 2 kg and were compared with a stored best of 1 kg
C4_Witness ==
    /\ Raced(1, 2)
    /\ req[1].max_weight = Kg(1)
    /\ req[1].weight = Some(Kg(2)) /\ req[2].weight = Some(Kg(2))
    /\ \A r \in req[1].row \cup req[2].row : r \in sets /\ r.is_pr
    /\ Get(req[1].row).id # Get(req[2].row).id

\* reachable as well: the lighter set is flagged although the heavier one was
\* committed before it
C4_LighterSeen ==
    /\ Raced(1, 2)
    /\ Get(req[1].weight) < Get(req[2].weight)
    /\ Get(req[1].row).id > Get(req[2].row).id
    /\ Get(req[1].row).is_pr /\ Get(req[2].row).is_pr
    /\ Get(req[1].row) \in sets /\ Get(req[2].row) \in sets

(***************************************************************************)
(* get_streak (SpecStreak).  Dates are day numbers.  The handler is a      *)
(* read-only function of the stored workout dates and of the two clocks.   *)
(***************************************************************************)
STREAK_LOOKBACK_DAYS == 430

MaxDay == 6

Epoch == 2 * STREAK_LOOKBACK_DAYS

\* dates a workout's started_at can fall on: a recent window (started_at is
\* client-settable through PATCH, so dates after today occur), and two days
\* around the lookback cutoff
RecentDays == Epoch..(Epoch + MaxDay)
OldDays    == {Epoch - STREAK_LOOKBACK_DAYS + 2, Epoch - STREAK_LOOKBACK_DAYS + 3}
Todays     == (Epoch + 2)..(Epoch + MaxDay)

\* Lines 24-31: distinct dates with started_at >= cutoff ...
FetchedDates(dates, utc) == {d \in dates : d >= utc - STREAK_LOOKBACK_DAYS}

\* ... ordered descending (lines 30, 32-37).
RECURSIVE SortDesc(_)
SortDesc(S) == IF S = {} THEN <<>> ELSE <<MaxOf(S)>> \o SortDesc(S \ {MaxOf(S)})

RECURSIVE CurrentRunNoBreak(_, _)
CurrentRunNoBreak(wd, i) ==
    IF i > Len(wd) THEN 0
    ELSE (IF wd[i] = wd[i - 1] - 1 THEN 1 ELSE 0) + CurrentRunNoBreak(wd, i + 1)

\* Lines 53-57: the loop from list position i (1-based here), counting the
\* entries that are one day before their predecessor, up to the first gap.
RECURSIVE CurrentRun(_, _)
CurrentRun(wd, i) ==
    IF i > Len(wd) THEN 0
    ELSE IF wd[i] = wd[i - 1] - 1 THEN 1 + CurrentRun(wd, i + 1)
    ELSE 0

current_streak_counting_from_two(wd, td) ==
    IF wd[1] >= td - 1 THEN 2 + CurrentRun(wd, 2) ELSE 0

\* Lines 50-57
current_streak(wd, td) ==
    IF wd[1] >= td - 1 THEN 1 + CurrentRun(wd, 2) ELSE 0

RECURSIVE LongestScanNoReset(_, _, _, _)
LongestScanNoReset(wd, i, run, longest) ==
    IF i > Len(wd) THEN longest
    ELSE IF wd[i] = wd[i - 1] - 1
         THEN LongestScanNoReset(wd, i + 1, run + 1,
                                 IF run + 1 > longest THEN run + 1 ELSE longest)
         ELSE LongestScanNoReset(wd, i + 1, run, longest)

\* Lines 62-67: the scan from list position i with the running counters.
RECURSIVE LongestScan(_, _, _, _)
LongestScan(wd, i, run, longest) ==
    IF i > Len(wd) THEN longest
    ELSE IF wd[i] = wd[i - 1] - 1
         THEN LongestScan(wd, i + 1, run + 1,
                          IF run + 1 > longest THEN run + 1 ELSE longest)
         ELSE LongestScan(wd, i + 1, 1, longest)

get_streak(dates, td, utc) ==
    LET wd == SortDesc(FetchedDates(dates, utc))
    IN IF wd = <<>>
       THEN [current_streak |-> 0, longest_streak |-> 0, last_workout_date |-> None]
       ELSE [current_streak |-> current_streak(wd, td),
             longest_streak |-> LongestScan(wd, 2, 1, 1),
             last_workout_date |-> Some(wd[1])]

InitStreak ==
    /\ workoutDates \in SUBSET (RecentDays \cup OldDays)
    /\ today \in Todays
    /\ utcToday \in {today - 1, today, today + 1}
    /\ streak = NoCall
    /\ DbAtRest /\ DetectAtRest /\ CalAtRest /\ BodyAtRest /\ RecAtRest
    /\ ApiAtRest

GetStreak ==
    /\ streak.done = FALSE
    /\ streak' = [done |-> TRUE, out |-> get_streak(workoutDates, today, utcToday)]
    /\ UNCHANGED <<workoutDates, today, utcToday>>
    /\ UNCHANGED prVars /\ UNCHANGED calVars /\ UNCHANGED bodyVars /\ UNCHANGED recVars
    /\ UNCHANGED apiVars

NextStreak == GetStreak

SpecStreak == InitStreak /\ [][NextStreak]_vars

\* The claims speak of the date list the handler walks.
Supplied == FetchedDates(workoutDates, utcToday)
\* the dates of the unbroken run of calendar days that ends at day d
RunEndingAt(d) == {e \in Supplied : e <= d /\ \A x \in e..d : x \in Supplied}
\* the lengths of all runs of consecutive calendar days among the dates
RunLengths == {b - a + 1 : <<a, b>> \in
                  {ab \in Supplied \X Supplied :
                      ab[1] <= ab[2] /\ \A x \in ab[1]..ab[2] : x \in Supplied}}

\* C5: current_streak is 0 whenever the most recent workout date is neither
\* today nor yesterday, a most recent date after today included.
C5_ZeroUnlessTodayOrYesterday ==
    (streak.done /\ Supplied # {}) =>
        (MaxOf(Supplied) \notin {today, today - 1} => streak.out.current_streak = 0)

\* the part of C5 the code keeps: a most recent date before yesterday
C5_ZeroWhenStale ==
    (streak.done /\ Supplied # {}) =>
        (MaxOf(Supplied) < today - 1 => streak.out.current_streak = 0)

\* C6: when the most recent workout date is today or yesterday, current_streak
\* is the number of dates in the unbroken run of consecutive calendar days
\* that ends at the most recent date.
C6_CurrentIsRunAtLatest ==
    (streak.done /\ Supplied # {}) =>
        (MaxOf(Supplied) \in {today, today - 1} =>
            streak.out.current_streak = Cardinality(RunEndingAt(MaxOf(Supplied))))

\* dates {d, d+1, d+2, d+4} with today = d+4 give current_streak = 1
C6_Witness ==
    /\ streak.done
    /\ Supplied = {Epoch, Epoch + 1, Epoch + 2, Epoch + 4}
    /\ today = Epoch + 4
    /\ streak.out.current_streak = 1

\* reachable as well: a run of three ending yesterday
C6_RunOfThreeSeen ==
    /\ streak.done
    /\ Supplied = {Epoch, Epoch + 2, Epoch + 3, Epoch + 4}
    /\ today = Epoch + 5
    /\ streak.out.current_streak = 3

C7_EmptySeen ==
    streak.done /\ workoutDates # {} /\ Supplied = {} /\ streak.out.longest_streak = 0

(***************************************************************************)
(* calorie_estimation.py (SpecCal).  Exact arithmetic on integers: METs    *)
(* are in tenths (3.5 is 35), durations in seconds (duration_minutes is    *)
(* seconds / 60), results in tenths of a kcal.                             *)
(***************************************************************************)
MET_LIGHT    == 35
MET_MODERATE == 50
MET_VIGOROUS == 60
DEFAULT_MET  == MET_MODERATE
\* 2.5 minutes, in tenths of a minute
MINUTES_PER_SET_ESTIMATE == 25
TONNAGE_PER_MIN_LIGHT_MAX    == 80
TONNAGE_PER_MIN_VIGOROUS_MIN == 200
MET_ACTIVE_LIFTING    == 55
MET_REST_BETWEEN_SETS == 20

MaxSetsCount == 2

\* (intensity or "").strip().lower() on the labels below
StripLower(str) == IF str = "Vigorous " THEN "vigorous" ELSE str

get_met_for_intensity(intensity) ==
    IF intensity = None \/ intensity = Some("")
    THEN DEFAULT_MET
    ELSE LET i == StripLower(Get(intensity))
         IN IF i = "light" THEN MET_LIGHT
            ELSE IF i = "vigorous" THEN MET_VIGOROUS
            ELSE MET_MODERATE

infer_intensity_inclusive(tonnage_kg, seconds) ==
    IF seconds <= 0 \/ tonnage_kg <= 0 THEN "moderate"
    ELSE IF tonnage_kg * 60 <= TONNAGE_PER_MIN_LIGHT_MAX * seconds THEN "light"
    ELSE IF tonnage_kg * 60 > TONNAGE_PER_MIN_VIGOROUS_MIN * seconds THEN "vigorous"
    ELSE "moderate"

\* kg_per_min = tonnage_kg / duration_minutes = tonnage_kg * 60 / seconds
infer_intensity_from_tonnage(tonnage_kg, seconds) ==
    IF seconds <= 0 \/ tonnage_kg <= 0 THEN "moderate"
    ELSE IF tonnage_kg * 60 < TONNAGE_PER_MIN_LIGHT_MAX * seconds THEN "light"
    ELSE IF tonnage_kg * 60 >= TONNAGE_PER_MIN_VIGOROUS_MIN * seconds THEN "vigorous"
    ELSE "moderate"

\* MET * base * minutes, in tenths of a kcal, is
\* (met / 10) * (35 / 10) * weight_kg / 200 * (seconds / 60) * 10
\*   = met * 35 * weight_kg * seconds / TenthsDen
TenthsDen == 10 * 200 * 60

\* round(x, 1) of the float nearest to num / TenthsDen tenths: the nearest
\* tenth; where the exact value lies midway between two tenths the float
\* product decides, so both neighbours are outcomes.
Round1(num) ==
    {q \in {num \div TenthsDen, (num \div TenthsDen) + 1} :
        2 * (IF q * TenthsDen >= num THEN q * TenthsDen - num ELSE num - q * TenthsDen)
            <= TenthsDen}

Max0(x) == IF x > 0 THEN x ELSE 0

Tier1NeedsBothPositive(active_seconds, rest_seconds) ==
    /\ active_seconds # None
    /\ rest_seconds # None
    /\ Get(active_seconds) > 0 /\ Get(rest_seconds) > 0

\* Lines 87-91
Tier1Applies(active_seconds, rest_seconds) ==
    /\ active_seconds # None
    /\ rest_seconds # None
    /\ (Get(active_seconds) > 0 \/ Get(rest_seconds) > 0)

\* The set of values estimate_calories can return (one, or two at a midpoint).
estimate_calories(weight_kg, seconds, intensity, tonnage_kg, active_seconds, rest_seconds) ==
    IF weight_kg <= 0 THEN {0}
    ELSE IF Tier1Applies(active_seconds, rest_seconds)
    THEN Round1(35 * weight_kg *
                  (MET_ACTIVE_LIFTING * Max0(Get(active_seconds))
                     + MET_REST_BETWEEN_SETS * Max0(Get(rest_seconds))))
    ELSE IF seconds <= 0 THEN {0}
    ELSE LET label == IF intensity = None /\ tonnage_kg # None /\ Get(tonnage_kg) > 0
                      THEN Some(infer_intensity_from_tonnage(Get(tonnage_kg), seconds))
                      ELSE intensity
         IN Round1(get_met_for_intensity(label) * 35 * weight_kg * seconds)

active_duration_accepts_zero(duration_seconds, sets_count) ==
    IF duration_seconds # None /\ Get(duration_seconds) >= 0
    THEN Get(duration_seconds)
    ELSE IF sets_count <= 0 THEN 0
    ELSE sets_count * MINUTES_PER_SET_ESTIMATE * 6

\* Returns minutes * 60: duration_seconds / 60.0 minutes is duration_seconds,
\* and a tenth of a minute is 6 seconds.
get_active_duration_minutes(duration_seconds, sets_count) ==
    IF duration_seconds # None /\ Get(duration_seconds) > 0
    THEN Get(duration_seconds)
    ELSE IF sets_count <= 0 THEN 0
    ELSE sets_count * MINUTES_PER_SET_ESTIMATE * 6

CalWeights     == {0 - 70, 0, 70, 80}
CalIntensities == {None, Some("light"), Some("moderate"), Some("vigorous"),
                   Some("Vigorous ")}
CalTonnages    == {None, Some(0), Some(2399), Some(2400), Some(5999), Some(6000)}
CalActive      == {None, Some(0 - 60), Some(0), Some(45), Some(60)}
CalRest        == {None, Some(0 - 30), Some(0), Some(90)}
DurSeconds     == {None, Some(0 - 60), Some(0), Some(60), Some(1800)}

InitCal ==
    /\ durCall \in [done : {FALSE}, duration_seconds : DurSeconds,
                    sets_count : 0..MaxSetsCount]
    /\ calCall \in [done : {FALSE}, weight_kg : CalWeights, intensity : CalIntensities,
                    tonnage_kg : CalTonnages, active_seconds : CalActive,
                    rest_seconds : CalRest]
    /\ DbAtRest /\ DetectAtRest /\ StreakAtRest /\ BodyAtRest /\ RecAtRest
    /\ ApiAtRest

\* The duration a caller passes on: workouts.py lines 109-112.
GetActiveDuration ==
    /\ durCall.done = FALSE
    /\ durCall' = [done |-> TRUE, duration_seconds |-> durCall.duration_seconds,
                   sets_count |-> durCall.sets_count,
                   out |-> get_active_duration_minutes(durCall.duration_seconds,
                                                       durCall.sets_count)]
    /\ UNCHANGED calCall
    /\ UNCHANGED prVars /\ UNCHANGED streakVars
    /\ UNCHANGED bodyVars /\ UNCHANGED recVars
    /\ UNCHANGED apiVars

EstimateCalories ==
    /\ durCall.done = TRUE
    /\ calCall.done = FALSE
    /\ \E kcal \in estimate_calories(calCall.weight_kg, durCall.out, calCall.intensity,
                                     calCall.tonnage_kg, calCall.active_seconds,
                                     calCall.rest_seconds) :
          calCall' = [done |-> TRUE, weight_kg |-> calCall.weight_kg,
                      seconds |-> durCall.out, intensity |-> calCall.intensity,
                      tonnage_kg |-> calCall.tonnage_kg,
                      active_seconds |-> calCall.active_seconds,
                      rest_seconds |-> calCall.rest_seconds, out |-> kcal]
    /\ UNCHANGED durCall
    /\ UNCHANGED prVars /\ UNCHANGED streakVars
    /\ UNCHANGED bodyVars /\ UNCHANGED recVars
    /\ UNCHANGED apiVars

NextCal == GetActiveDuration \/ EstimateCalories

SpecCal == InitCal /\ [][NextCal]_vars

(***************************************************************************)
(* Claims about estimate_calories and get_active_duration_minutes.         *)
(***************************************************************************)
\* both aggregates provided and at least one of them positive
BothGivenOnePositive ==
    /\ calCall.active_seconds # None
    /\ calCall.rest_seconds # None
    /\ \E x \in calCall.active_seconds \cup calCall.rest_seconds : x > 0

\* out is a tenth nearest to num / TenthsDen
NearestTenth(out, num) ==
    /\ (2 * out - 1) * TenthsDen <= 2 * num
    /\ 2 * num <= (2 * out + 1) * TenthsDen

C8_NegativeActiveSeen ==
    /\ calCall.done
    /\ calCall.weight_kg = 80
    /\ calCall.active_seconds = Some(0 - 60) /\ calCall.rest_seconds = Some(90)
    /\ calCall.out = 42

\* The MET (in tenths) the claim names for a call outside Tier 1.
StatedMet ==
    IF calCall.intensity # None
    THEN (IF calCall.intensity = Some("light") THEN 35
          ELSE IF calCall.intensity \in {Some("vigorous"), Some("Vigorous ")} THEN 60
          ELSE 50)
    ELSE IF calCall.tonnage_kg = None \/ calCall.tonnage_kg = Some(0) THEN 50
    ELSE IF Get(calCall.tonnage_kg) * 60 < 80 * calCall.seconds THEN 35
    ELSE IF Get(calCall.tonnage_kg) * 60 >= 200 * calCall.seconds THEN 60
    ELSE 50

Tier2Case ==
    /\ calCall.done
    /\ ~BothGivenOnePositive
    /\ calCall.weight_kg > 0
    /\ calCall.seconds > 0

\* C9 as stated: outside Tier 1 the result is MET*base*duration_minutes.
C9_Tier2AsStated ==
    Tier2Case =>
        calCall.out * TenthsDen = StatedMet * 35 * calCall.weight_kg * calCall.seconds

\* C9 (amended): outside Tier 1, for weight_kg > 0 and duration_minutes > 0,
\* the result is MET*base*duration_minutes rounded to one decimal, the MET
\* being that of the explicit label when one is given (light 3.5, moderate
\* 5.0, vigorous 6.0), else that of the tonnage density (below 80 light, at or
\* above 200 vigorous, else moderate), else 5.0.
C9_Tier2Rounded ==
    Tier2Case =>
        NearestTenth(calCall.out, StatedMet * 35 * calCall.weight_kg * calCall.seconds)

\* 80 kg, 30 minutes, vigorous, with a tonnage that alone would read light
C9_Witness ==
    /\ Tier2Case
    /\ calCall.weight_kg = 80 /\ calCall.seconds = 1800
    /\ calCall.intensity = Some("vigorous")
    /\ calCall.tonnage_kg = Some(2399)
    /\ calCall.out = 2520

\* reachable as well: no label, density exactly 80 kg/min is moderate
C9_DensityAtEightySeen ==
    /\ Tier2Case
    /\ calCall.weight_kg = 80 /\ calCall.seconds = 1800
    /\ calCall.intensity = None
    /\ calCall.tonnage_kg = Some(2400)
    /\ calCall.out = 2100

\* C10: estimate_calories returns 0.0 whenever weight_kg <= 0 and whenever
\* Tier 1 does not apply and duration_minutes <= 0; get_active_duration_minutes
\* returns duration_seconds/60 for a positive session duration, otherwise
\* sets_count*2.5, which is 0 when there are no sets.
C10_ZeroAndFallbackDuration ==
    /\ (calCall.done /\ calCall.weight_kg <= 0) => calCall.out = 0
    /\ (calCall.done /\ ~BothGivenOnePositive /\ calCall.seconds <= 0)
          => calCall.out = 0
    /\ durCall.done =>
          IF durCall.duration_seconds # None /\ Get(durCall.duration_seconds) > 0
          THEN durCall.out = Get(durCall.duration_seconds)
          ELSE /\ durCall.out * 10 = durCall.sets_count * 25 * 60
               /\ (durCall.sets_count = 0 => durCall.out = 0)

\* no session duration and two sets give 5 minutes; a body weight of -70
\* gives 0.0 even with tension and rest times
C10_Witness ==
    /\ durCall.done
    /\ durCall.duration_seconds = Some(0) /\ durCall.sets_count = 2
    /\ durCall.out = 300
    /\ calCall.done
    /\ calCall.weight_kg = 0 - 70
    /\ calCall.active_seconds = Some(45) /\ calCall.rest_seconds = Some(90)
    /\ calCall.out = 0

\* reachable as well: positive weight, no Tier 1 data, no sets and no duration
C10_NoDurationSeen ==
    /\ calCall.done
    /\ calCall.weight_kg = 80
    /\ calCall.active_seconds = None
    /\ durCall.duration_seconds = None /\ durCall.sets_count = 0
    /\ calCall.seconds = 0
    /\ calCall.out = 0

(***************************************************************************)
(* services/body_analytics.py.  Lengths are integer centimetres, weights   *)
(* integer kilograms, ages years.  Percentages (body fat, symmetry ratio), *)
(* FFMI and BMR are integers in tenths, the unit round(x, 1) leaves; the   *)
(* value before rounding is carried in hundredths.  The formulas are       *)
(* evaluated in fixed point with the coefficients of the source; log10 is  *)
(* computed digit by digit.  The outcome agrees with the float result to   *)
(* within a tenth.  A measurement dict is a function from keys to optional *)
(* values: a key maps to None when the dict does not hold it.              *)
(***************************************************************************)
\* dict.get(k)
MGet(m, k) == IF k \in DOMAIN m THEN m[k] ELSE None

\* `if m:` -- the dict holds at least one key
NonEmpty(m) == \E k \in DOMAIN m : m[k] # None

\* `not x` for an optional number: None or 0
Falsy(x) == x = None \/ x = Some(0)

\* round(num / den, 0) with den > 0: nearest integer, an exact tie to even
RoundHalfEven(num, den) ==
    LET q == num \div den
        r == num - q * den
    IN IF 2 * r < den THEN q
       ELSE IF 2 * r > den THEN q + 1
       ELSE IF q % 2 = 0 THEN q ELSE q + 1

\* Lines 28-31 of _normalize_measurements: abdomen -> waist, hip -> hips
\* where the canonical key is missing.
_normalize_measurements(measurements) ==
    [k \in DOMAIN measurements \cup {"waist", "hips"} |->
        IF k = "waist" /\ MGet(measurements, "waist") = None
        THEN MGet(measurements, "abdomen")
        ELSE IF k = "hips" /\ MGet(measurements, "hips") = None
        THEN MGet(measurements, "hip")
        ELSE MGet(measurements, k)]

calc_bmr_equal_offsets(weight_kg, height_cm, age, sex) ==
    LET base == 1000 * weight_kg + 625 * height_cm - 500 * age
    IN RoundHalfEven(IF sex = "male" THEN base + 500 ELSE base - 500, 10)

\* base, in hundredths of a kcal, is 10 w + 6.25 h - 5 a
calc_bmr(weight_kg, height_cm, age, sex) ==
    LET base == 1000 * weight_kg + 625 * height_cm - 500 * age
    IN RoundHalfEven(IF sex = "male" THEN base + 500 ELSE base - 16100, 10)

BF_PCT_MIN == 200
BF_PCT_MAX == 6000

clamp_bf_lower_only(pct) ==
    IF pct = None THEN None
    ELSE Some(RoundHalfEven(IF Get(pct) < BF_PCT_MIN THEN BF_PCT_MIN ELSE Get(pct), 10))

\* pct in hundredths (optional); the result in tenths
_clamp_bf(pct) ==
    IF pct = None THEN None
    ELSE LET capped  == IF Get(pct) < BF_PCT_MAX THEN Get(pct) ELSE BF_PCT_MAX
             floored == IF capped > BF_PCT_MIN THEN capped ELSE BF_PCT_MIN
         IN Some(RoundHalfEven(floored, 10))

(***************************************************************************)
(* math.log10 of a positive integer, in units of 1/10000: the integer part *)
(* is the number of decimal digits less one, the fraction is read off bit  *)
(* by bit by squaring the mantissa: 14 bits, the mantissa in units of      *)
(* 1/4000.                                                                 *)
(***************************************************************************)

RECURSIVE Magnitude(_)
Magnitude(n) == IF n < 10 THEN 0 ELSE 1 + Magnitude(n \div 10)

RECURSIVE Pow(_, _)
Pow(b, e) == IF e = 0 THEN 1 ELSE b * Pow(b, e - 1)

RECURSIVE FractionBits(_, _, _)
FractionBits(x, i, acc) ==
    IF i = 0 THEN acc
    ELSE LET sq == (x * x) \div 4000
         IN IF sq >= 10 * 4000
            THEN FractionBits(sq \div 10, i - 1, 2 * acc + 1)
            ELSE FractionBits(sq, i - 1, 2 * acc)

Log10(n) ==
    LET k == Magnitude(n)
    IN k * 10000
         + (FractionBits((n * 4000) \div Pow(10, k), 14, 0) * 10000) \div Pow(2, 14)

\* log10(cm * CM_TO_IN), CM_TO_IN = 1 / 2.54
Log10Inches(cm) == Log10(cm * 100) - Log10(254)

\* Line 81: the early return of calc_navy_bf
NavySkips(height_cm, waist_cm, neck_cm) ==
    \/ waist_cm = None
    \/ neck_cm = None
    \/ Get(waist_cm) <= Get(neck_cm)
    \/ height_cm <= 0

\* Lines 83-106.  math.log10 of a non-positive number raises ValueError,
\* which the except clause turns into None.
calc_navy_bf(sex, height_cm, waist_cm, neck_cm, hips_cm) ==
    IF NavySkips(height_cm, waist_cm, neck_cm) THEN None
    ELSE IF sex = "male"
    THEN _clamp_bf(Some((86010 * Log10Inches(Get(waist_cm) - Get(neck_cm))) \div 100000
                        - (70041 * Log10Inches(height_cm)) \div 100000
                        + 3676))
    ELSE IF hips_cm = None THEN None
    ELSE LET girth == Get(waist_cm) + Get(hips_cm) - Get(neck_cm)
         IN IF girth <= 0 THEN None
            ELSE _clamp_bf(Some((163 * Log10Inches(girth)) \div 100
                                + (205 * Log10Inches(girth)) \div 100000
                                - (97684 * Log10Inches(height_cm)) \div 100000
                                - 7839))

\* Line 111
FfmiSkips(height_cm, body_fat_pct) == body_fat_pct = None \/ height_cm <= 0

\* body_fat_pct in tenths; lean_mass / height_m^2 + 6.1 * (1.8 - height_m)
calc_ffmi(weight_kg, height_cm, body_fat_pct) ==
    IF FfmiSkips(height_cm, body_fat_pct) THEN None
    ELSE Some(RoundHalfEven(
                 (weight_kg * (1000 - Get(body_fat_pct)) * 1000) \div (height_cm * height_cm)
                   + (61 * (180 - height_cm)) \div 10,
                 10))

\* Line 128
ArmySkips(weight_kg, waist_cm) == weight_kg <= 0 \/ Falsy(waist_cm)

\* 0.12 * KG_TO_LB = 0.2645544, 0.015 * KG_TO_LB = 0.0330693 per kg;
\* 1.99 * CM_TO_IN = 199 / 254, 1.27 * CM_TO_IN = 127 / 254 per cm
calc_army_bf(sex, weight_kg, waist_cm, hips_cm) ==
    IF ArmySkips(weight_kg, waist_cm) THEN None
    ELSE IF sex = "male"
    THEN _clamp_bf(Some(0 - 2697 - (2645544 * weight_kg) \div 100000
                        + (19900 * Get(waist_cm)) \div 254))
    ELSE _clamp_bf(Some(0 - 915 - (330693 * weight_kg) \div 100000
                        + (12700 * Get(waist_cm)) \div 254))

\* bmi = weight_kg / height_m^2, in hundredths
Bmi(weight_kg, height_cm) == (weight_kg * 1000000) \div (height_cm * height_cm)

\* Line 146
CunBaeSkips(weight_kg, height_cm) == height_cm <= 0 \/ weight_kg <= 0

calc_cun_bae_bf(weight_kg, height_cm, age, sex) ==
    IF CunBaeSkips(weight_kg, height_cm) THEN None
    ELSE LET bmi  == Bmi(weight_kg, height_cm)
             bmi2 == (bmi * bmi) \div 100
             s    == IF sex = "male" THEN 0 ELSE 1
         IN _clamp_bf(Some(0 - 4499
                           + (503 * age) \div 10
                           + 1069 * s
                           + (3172 * bmi) \div 1000
                           - (26 * bmi2) \div 1000
                           + (181 * bmi * s) \div 1000
                           - (2 * bmi * age) \div 100
                           - (5 * bmi2 * s) \div 1000
                           + (21 * ((bmi2 * age) \div 100)) \div 1000))

RfmSkipsOnAbsentOnly(height_cm, waist_cm) == height_cm <= 0 \/ waist_cm = None

\* Line 169
RfmSkips(height_cm, waist_cm) ==
    height_cm <= 0 \/ Falsy(waist_cm) \/ Get(waist_cm) <= 0

calc_rfm_bf(sex, height_cm, waist_cm) ==
    IF RfmSkips(height_cm, waist_cm) THEN None
    ELSE IF sex = "male"
    THEN _clamp_bf(Some(6400 - (2000 * height_cm) \div Get(waist_cm)))
    ELSE _clamp_bf(Some(7600 - (2000 * height_cm) \div Get(waist_cm)))

\* Line 187
MultiGirthSkips(weight_kg, height_cm, waist_cm, chest_cm, hips_cm) ==
    height_cm <= 0 \/ weight_kg <= 0 \/ Falsy(waist_cm) \/ Falsy(chest_cm) \/ Falsy(hips_cm)

\* 0.4 * CM_TO_IN is 40 / 254 hundredths per cm, and so on
calc_multi_girth_bf(weight_kg, height_cm, sex, waist_cm, chest_cm, hips_cm) ==
    IF MultiGirthSkips(weight_kg, height_cm, waist_cm, chest_cm, hips_cm) THEN None
    ELSE IF sex = "male"
    THEN _clamp_bf(Some(Bmi(weight_kg, height_cm) \div 2
                        + (4000 * Get(waist_cm)) \div 254
                        + (2000 * Get(hips_cm)) \div 254
                        - (3000 * Get(chest_cm)) \div 254
                        - 1500))
    ELSE _clamp_bf(Some(Bmi(weight_kg, height_cm) \div 2
                        + (3000 * Get(waist_cm)) \div 254
                        + (4000 * Get(hips_cm)) \div 254
                        - (2000 * Get(chest_cm)) \div 254
                        - 1000))

(***************************************************************************)
(* Symmetry, percentiles, rank.                                            *)
(***************************************************************************)
PAIRED_KEYS == {"bicep", "forearm", "thigh", "calf"}

\* f"{key}_l" and f"{key}_r"
LeftKey(key) ==
    CASE key = "bicep" -> "bicep_l" [] key = "forearm" -> "forearm_l"
      [] key = "thigh" -> "thigh_l" [] key = "calf" -> "calf_l"
RightKey(key) ==
    CASE key = "bicep" -> "bicep_r" [] key = "forearm" -> "forearm_r"
      [] key = "thigh" -> "thigh_r" [] key = "calf" -> "calf_r"

Larger(a, b)  == IF a >= b THEN a ELSE b
Smaller(a, b) == IF a <= b THEN a ELSE b
Abs(a)        == IF a >= 0 THEN a ELSE 0 - a

SymmetryListsWhenBothPresent(left, right) == left # None /\ right # None

\* Line 209
SymmetryLists(left, right) ==
    left # None /\ right # None /\ Larger(Get(left), Get(right)) > 0

\* Lines 210-216: ratio and delta in tenths
SymmetryEntry(left, right) ==
    [left  |-> left,
     right |-> right,
     ratio |-> RoundHalfEven(Smaller(left, right) * 1000, Larger(left, right)),
     delta |-> Abs(left - right) * 10]

\* min(left, right) / max(left, right) with max(left, right) = 0
SymmetryDividesByZero(m) ==
    \E key \in PAIRED_KEYS :
        /\ SymmetryLists(MGet(m, LeftKey(key)), MGet(m, RightKey(key)))
        /\ Larger(Get(MGet(m, LeftKey(key))), Get(MGet(m, RightKey(key)))) = 0

calc_symmetry(m) ==
    [key \in {k \in PAIRED_KEYS : SymmetryLists(MGet(m, LeftKey(k)), MGet(m, RightKey(k)))}
        |-> SymmetryEntry(Get(MGet(m, LeftKey(key))), Get(MGet(m, RightKey(key))))]

\* The keys of NHANES_STATS[sex] (the same for both sexes).
NHANES_KEYS == {"chest", "waist", "hips", "neck", "shoulder", "bicep", "forearm",
                "thigh", "calf", "wrist", "ankle"}

\* Lines 234-238: the paired key a measurement key starts with, else the key
BaseKey(key) ==
    CASE key \in {"bicep", "bicep_l", "bicep_r"} -> "bicep"
      [] key \in {"forearm", "forearm_l", "forearm_r"} -> "forearm"
      [] key \in {"thigh", "thigh_l", "thigh_r"} -> "thigh"
      [] key \in {"calf", "calf_l", "calf_r"} -> "calf"
      [] OTHER -> key

\* The keys of the dict calc_percentiles returns.  The percentile values
\* (math.erf) and the value of the rank are not represented.
calc_percentiles(sex, m) ==
    {BaseKey(k) : k \in {j \in DOMAIN m : m[j] # None}} \cap NHANES_KEYS

Ranked == Some("top")

\* Lines 268-292: null without percentiles or without scores
calc_aesthetic_rank(percentiles, m) ==
    IF percentiles = {} THEN None
    ELSE IF \/ (/\ ~Falsy(MGet(m, "shoulder")) /\ ~Falsy(MGet(m, "waist"))
                /\ Get(MGet(m, "waist")) > 0)
            \/ percentiles \cap {"chest", "shoulder", "bicep", "thigh", "calf", "waist"} # {}
    THEN Ranked
    ELSE None

(***************************************************************************)
(* compute_all_stats.  A division by zero that no guard and no except      *)
(* clause stops leaves the function as an exception; the result is then    *)
(* the record Raised.                                                      *)
(***************************************************************************)
Raised == [raised |-> TRUE]

EmptyDict == [k \in {} |-> None]

\* Line 313
Normalized(measurements) ==
    IF NonEmpty(measurements) THEN _normalize_measurements(measurements) ELSE EmptyDict

\* Line 320
NavyEvaluated(measurements, manual_bf) == manual_bf = None /\ NonEmpty(measurements)

SelectedBfNavyFirst(height_cm, sex, m, manual_bf) ==
    IF NonEmpty(m) /\ calc_navy_bf(sex, height_cm, MGet(m, "waist"), MGet(m, "neck"),
                                   MGet(m, "hips")) # None
    THEN calc_navy_bf(sex, height_cm, MGet(m, "waist"), MGet(m, "neck"), MGet(m, "hips"))
    ELSE manual_bf

\* Lines 319-324: the manual value, else the Navy result
SelectedBf(height_cm, sex, m, manual_bf) ==
    IF manual_bf = None /\ NonEmpty(m)
    THEN calc_navy_bf(sex, height_cm, MGet(m, "waist"), MGet(m, "neck"), MGet(m, "hips"))
    ELSE manual_bf

\* height_m ** 2 = 0 or waist_cm = 0 as a divisor, or a pair with maximum 0
DividesByZero(weight_kg, height_cm, m, bf) ==
    \/ ~CunBaeSkips(weight_kg, height_cm) /\ height_cm = 0
    \/ ~FfmiSkips(height_cm, bf) /\ height_cm = 0
    \/ /\ NonEmpty(m)
       /\ \/ ~RfmSkips(height_cm, MGet(m, "waist")) /\ Get(MGet(m, "waist")) = 0
          \/ /\ ~MultiGirthSkips(weight_kg, height_cm, MGet(m, "waist"),
                                 MGet(m, "chest"), MGet(m, "hips"))
             /\ height_cm = 0
          \/ SymmetryDividesByZero(m)

compute_all_stats(weight_kg, height_cm, age, sex, measurements, manual_bf) ==
    LET m  == Normalized(measurements)
        bf == SelectedBf(height_cm, sex, m, manual_bf)
    IN IF DividesByZero(weight_kg, height_cm, m, bf) THEN Raised
       ELSE [raised         |-> FALSE,
             bmr            |-> calc_bmr(weight_kg, height_cm, age, sex),
             bf_navy        |-> bf,
             bf_cun_bae     |-> calc_cun_bae_bf(weight_kg, height_cm, age, sex),
             bf_army        |-> IF NonEmpty(m)
                                THEN calc_army_bf(sex, weight_kg, MGet(m, "waist"),
                                                  MGet(m, "hips"))
                                ELSE None,
             bf_rfm         |-> IF NonEmpty(m)
                                THEN calc_rfm_bf(sex, height_cm, MGet(m, "waist"))
                                ELSE None,
             bf_multi       |-> IF NonEmpty(m)
                                THEN calc_multi_girth_bf(weight_kg, height_cm, sex,
                                                         MGet(m, "waist"), MGet(m, "chest"),
                                                         MGet(m, "hips"))
                                ELSE None,
             ffmi           |-> calc_ffmi(weight_kg, height_cm, bf),
             percentiles    |-> IF NonEmpty(m) THEN calc_percentiles(sex, m) ELSE {},
             aesthetic_rank |-> IF NonEmpty(m)
                                THEN calc_aesthetic_rank(calc_percentiles(sex, m), m)
                                ELSE None,
             symmetry       |-> IF NonEmpty(m) THEN calc_symmetry(m) ELSE EmptyDict]

(***************************************************************************)
(* SpecBody: compute_all_stats applied to one profile, one measurement     *)
(* dict and one manual value.  The arguments range over what a caller of   *)
(* the function can pass, which is wider than what the request schemas     *)
(* (schemas/body.py) let through.                                          *)
(***************************************************************************)
Sexes       == {"male", "female"}
BodyWeights == {0, 80}
BodyHeights == {0, 180}
BodyAges    == {30}
\* manual body fat in tenths: 1.0, 2.0, 15.5, 60.0 and 75.0 percent
ManualBfs   == {None, Some(10), Some(20), Some(155), Some(600), Some(750)}

BodyMeasurements ==
    [waist   : {None, Some(0), Some(30), Some(85), Some(400)},
     neck    : {None, Some(38)},
     hips    : {None, Some(95), Some(0 - 200)},
     chest   : {None, Some(100)},
     abdomen : {None, Some(90)},
     hip     : {None, Some(95)},
     bicep_l : {None, Some(35)},
     bicep_r : {None, Some(0), Some(36)}]

InitBody ==
    /\ bodyCall \in [done : {FALSE},
                     args : [weight_kg : BodyWeights, height_cm : BodyHeights,
                             age : BodyAges, sex : Sexes,
                             measurements : BodyMeasurements, manual_bf : ManualBfs]]
    /\ bmrCall = NoCall /\ symCall = NoCall
    /\ DbAtRest /\ DetectAtRest /\ StreakAtRest /\ CalAtRest /\ RecAtRest
    /\ ApiAtRest

ComputeAllStats ==
    /\ bodyCall.done = FALSE
    /\ LET a == bodyCall.args
       IN bodyCall' =
             [done |-> TRUE,
              args |-> a,
              navy_evaluated |-> NavyEvaluated(Normalized(a.measurements), a.manual_bf),
              out  |-> compute_all_stats(a.weight_kg, a.height_cm, a.age, a.sex,
                                         a.measurements, a.manual_bf)]
    /\ UNCHANGED <<bmrCall, symCall>>
    /\ UNCHANGED prVars /\ UNCHANGED streakVars /\ UNCHANGED calVars /\ UNCHANGED recVars
    /\ UNCHANGED apiVars

NextBody == ComputeAllStats

SpecBody == InitBody /\ [][NextBody]_vars

(***************************************************************************)
(* SpecBmr: calc_bmr called for both sexes on the same weight, height and  *)
(* age.                                                                    *)
(***************************************************************************)
BmrWeights == {21, 80, 399}
BmrHeights == {51, 170, 171, 299}
BmrAges    == {10, 30, 35, 120}

InitBmr ==
    /\ bmrCall \in [done : {FALSE}, weight_kg : BmrWeights, height_cm : BmrHeights,
                    age : BmrAges, male : {None}, female : {None}]
    /\ bodyCall = NoCall /\ symCall = NoCall
    /\ DbAtRest /\ DetectAtRest /\ StreakAtRest /\ CalAtRest /\ RecAtRest
    /\ ApiAtRest

CalcBmr ==
    /\ \E sex \in Sexes :
          /\ bmrCall[sex] = None
          /\ bmrCall' =
                [bmrCall EXCEPT
                    ![sex] = Some(calc_bmr(bmrCall.weight_kg, bmrCall.height_cm,
                                           bmrCall.age, sex)),
                    !.done = \A other \in Sexes \ {sex} : bmrCall[other] # None]
    /\ UNCHANGED <<bodyCall, symCall>>
    /\ UNCHANGED prVars /\ UNCHANGED streakVars /\ UNCHANGED calVars /\ UNCHANGED recVars
    /\ UNCHANGED apiVars

NextBmr == CalcBmr

SpecBmr == InitBmr /\ [][NextBmr]_vars

(***************************************************************************)
(* SpecSym: calc_symmetry applied to one dict of paired measurements.      *)
(***************************************************************************)
SymMeasurements ==
    [bicep_l : {None, Some(0 - 5), Some(0), Some(10), Some(35), Some(36)},
     bicep_r : {None, Some(0 - 5), Some(0), Some(10), Some(35), Some(36)},
     thigh_l : {None, Some(55)},
     thigh_r : {None, Some(16), Some(55)}]

InitSym ==
    /\ symCall \in [done : {FALSE}, measurements : SymMeasurements]
    /\ bodyCall = NoCall /\ bmrCall = NoCall
    /\ DbAtRest /\ DetectAtRest /\ StreakAtRest /\ CalAtRest /\ RecAtRest
    /\ ApiAtRest

CalcSymmetry ==
    /\ symCall.done = FALSE
    /\ symCall' = [done |-> TRUE,
                   measurements |-> symCall.measurements,
                   out |-> IF SymmetryDividesByZero(symCall.measurements)
                           THEN Raised
                           ELSE [raised |-> FALSE,
                                 result |-> calc_symmetry(symCall.measurements)]]
    /\ UNCHANGED <<bodyCall, bmrCall>>
    /\ UNCHANGED prVars /\ UNCHANGED streakVars /\ UNCHANGED calVars /\ UNCHANGED recVars
    /\ UNCHANGED apiVars

NextSym == CalcSymmetry

SpecSym == InitSym /\ [][NextSym]_vars

(***************************************************************************)
(* Claims about compute_all_stats (SpecBody).                              *)
(***************************************************************************)
BfKeys == {"bf_navy", "bf_army", "bf_cun_bae", "bf_rfm", "bf_multi"}

\* an optional percentage in tenths that is null or within [2.0, 60.0]
InBfRange(x) == \A v \in x : 20 <= v /\ v <= 600

\* the measurement the formulas read under key k, aliases resolved
Measured(k) ==
    LET raw == bodyCall.args.measurements
    IN IF k = "waist" /\ raw.waist = None THEN raw.abdomen
       ELSE IF k = "hips" /\ raw.hips = None THEN raw.hip
       ELSE raw[k]

C11_FlooredSeen ==
    /\ bodyCall.done
    /\ bodyCall.args.sex = "male"
    /\ bodyCall.args.measurements.waist = Some(30)
    /\ bodyCall.out.bf_army = Some(20)
    /\ bodyCall.out.bf_rfm = Some(20)

\* ffmi (tenths) is the rounded weight*(1 - bf/100)/height_m^2 + 6.1*(1.8 -
\* height_m) for body fat bf (tenths): within 0.06 of it
FfmiOf(ffmi, weight_kg, height_cm, bf) ==
    Abs(100 * ffmi * height_cm * height_cm
          - (weight_kg * (1000 - bf) * 10000
               + 61 * (180 - height_cm) * height_cm * height_cm))
        <= 60 * height_cm * height_cm

\* C12: the body-fat value used downstream (for FFMI, and stored under
\* bf_navy) is the manual value when one is provided and the Navy result
\* otherwise; the Navy formula is not evaluated when a manual value is given;
\* ffmi is null when neither value is available or height_cm <= 0, and is
\* computed from the selected value otherwise.
C12_ManualElseNavy ==
    (bodyCall.done /\ ~bodyCall.out.raised) =>
        LET a == bodyCall.args
            o == bodyCall.out
        IN /\ a.manual_bf # None => (o.bf_navy = a.manual_bf /\ ~bodyCall.navy_evaluated)
           /\ a.manual_bf = None =>
                 /\ bodyCall.navy_evaluated = (\E k \in DOMAIN a.measurements :
                                                  a.measurements[k] # None)
                 /\ ~bodyCall.navy_evaluated => o.bf_navy = None
                 /\ InBfRange(o.bf_navy)
           /\ (o.bf_navy = None \/ a.height_cm <= 0) => o.ffmi = None
           /\ (o.bf_navy # None /\ a.height_cm > 0) =>
                 /\ o.ffmi # None
                 /\ FfmiOf(Get(o.ffmi), a.weight_kg, a.height_cm, Get(o.bf_navy))

\* manual 15.5 % with measurements the Navy formula would accept: 15.5 is
\* kept and FFMI (80 kg, 180 cm) is 20.9
C12_Witness ==
    /\ bodyCall.done
    /\ bodyCall.args.manual_bf = Some(155)
    /\ bodyCall.args.sex = "male"
    /\ bodyCall.args.weight_kg = 80 /\ bodyCall.args.height_cm = 180
    /\ bodyCall.args.measurements.waist = Some(85)
    /\ bodyCall.args.measurements.neck = Some(38)
    /\ ~bodyCall.navy_evaluated
    /\ bodyCall.out.bf_navy = Some(155)
    /\ bodyCall.out.ffmi = Some(209)

\* reachable as well: no manual value, Navy null, hence no FFMI; and a manual
\* value with height 0
C12_NoFfmiSeen ==
    /\ bodyCall.done
    /\ bodyCall.args.manual_bf = None
    /\ bodyCall.navy_evaluated
    /\ bodyCall.out.bf_navy = None
    /\ bodyCall.out.ffmi = None

C12_ZeroHeightSeen ==
    /\ bodyCall.done
    /\ bodyCall.args.manual_bf = Some(155)
    /\ bodyCall.args.height_cm = 0
    /\ bodyCall.out.ffmi = None

StatsKeys == {"raised", "bmr", "bf_navy", "bf_cun_bae", "bf_army", "bf_rfm", "bf_multi",
              "ffmi", "percentiles", "aesthetic_rank", "symmetry"}

\* the cases in which the Navy formula has no result (measurements read
\* after the aliases abdomen -> waist and hip -> hips are resolved)
NavyHasNoResult ==
    \/ Measured("waist") = None
    \/ Measured("neck") = None
    \/ Get(Measured("waist")) <= Get(Measured("neck"))
    \/ bodyCall.args.sex = "female" /\ Measured("hips") = None

\* C13: a metric whose inputs are missing is null and never stops the others:
\* compute_all_stats returns a record with all of bmr, bf_navy, bf_cun_bae,
\* bf_army, bf_rfm, bf_multi, ffmi, percentiles, aesthetic_rank and symmetry
\* for any numeric input; with no manual value, bf_navy is null when waist or
\* neck is absent, when waist <= neck, or for a female profile when hips is
\* absent, while bmr and bf_cun_bae are still computed (bf_cun_bae for
\* positive weight and height).
C13_NullNeverRaises ==
    bodyCall.done =>
        LET a == bodyCall.args
            o == bodyCall.out
        IN /\ o.raised = FALSE
           /\ DOMAIN o = StatsKeys
           /\ (a.manual_bf = None /\ NavyHasNoResult) => o.bf_navy = None
           /\ Abs(10 * o.bmr - (1000 * a.weight_kg + 625 * a.height_cm - 500 * a.age
                                  + (IF a.sex = "male" THEN 500 ELSE 0 - 16100))) <= 5
           /\ (a.weight_kg > 0 /\ a.height_cm > 0) => o.bf_cun_bae # None

\* a female profile without hips: no Navy value, the other metrics are there
C13_Witness ==
    /\ bodyCall.done
    /\ bodyCall.args.sex = "female"
    /\ bodyCall.args.manual_bf = None
    /\ bodyCall.args.weight_kg = 80 /\ bodyCall.args.height_cm = 180
    /\ bodyCall.args.measurements.waist = Some(85)
    /\ bodyCall.args.measurements.neck = Some(38)
    /\ Measured("hips") = None
    /\ bodyCall.out.raised = FALSE
    /\ bodyCall.out.bf_navy = None
    /\ bodyCall.out.ffmi = None
    /\ bodyCall.out.bmr = 16140
    /\ bodyCall.out.bf_cun_bae # None
    /\ bodyCall.out.bf_army # None
    /\ bodyCall.out.bf_rfm # None

\* reachable as well: waist 0, height 0 and a non-positive female girth
C13_ZeroWaistSeen ==
    /\ bodyCall.done
    /\ Measured("waist") = Some(0)
    /\ bodyCall.args.height_cm = 0
    /\ bodyCall.out.raised = FALSE
    /\ bodyCall.out.bf_rfm = None

C13_NegativeGirthSeen ==
    /\ bodyCall.done
    /\ bodyCall.args.sex = "female"
    /\ bodyCall.args.manual_bf = None
    /\ bodyCall.args.height_cm = 180
    /\ Measured("waist") = Some(85) /\ Measured("neck") = Some(38)
    /\ Measured("hips") = Some(0 - 200)
    /\ bodyCall.out.raised = FALSE
    /\ bodyCall.out.bf_navy = None

(***************************************************************************)
(* Claims about calc_symmetry (SpecSym) and calc_bmr (SpecBmr).            *)
(***************************************************************************)
\* C14: for every paired body part calc_symmetry lists, ratio is
\* 100*min(left, right)/max(left, right) (to the nearest tenth), delta is
\* |left - right|, and the ratio lies in [0, 100], for any measurement values.
C14_RatioWithinHundred ==
    (symCall.done /\ ~symCall.out.raised) =>
        \A key \in DOMAIN symCall.out.result :
            LET e  == symCall.out.result[key]
                lo == Smaller(e.left, e.right)
                hi == Larger(e.left, e.right)
            IN /\ e.left = Get(MGet(symCall.measurements, LeftKey(key)))
               /\ e.right = Get(MGet(symCall.measurements, RightKey(key)))
               /\ Abs(2 * (e.ratio * hi - 1000 * lo)) <= Abs(hi)
               /\ e.delta = 10 * Abs(e.left - e.right)
               /\ 0 <= e.ratio /\ e.ratio <= 1000

\* the part of C14 that holds: both sides non-negative
C14_NonNegativeSeen ==
    /\ symCall.done
    /\ symCall.measurements.bicep_l = Some(35)
    /\ symCall.measurements.bicep_r = Some(36)
    /\ symCall.out.result["bicep"].ratio = 972
    /\ symCall.out.result["bicep"].delta = 10

\* C15: for identical weight, height and age, calc_bmr for sex male minus
\* calc_bmr for sex female is exactly 166; both are 10*weight + 6.25*height -
\* 5*age, plus 5 for male and minus 161 for female, to one decimal.
C15_BmrDifference ==
    bmrCall.done =>
        LET base == 1000 * bmrCall.weight_kg + 625 * bmrCall.height_cm - 500 * bmrCall.age
        IN /\ Get(bmrCall.male) - Get(bmrCall.female) = 1660
           /\ Abs(10 * Get(bmrCall.male) - (base + 500)) <= 5
           /\ Abs(10 * Get(bmrCall.female) - (base - 16100)) <= 5

\* 80 kg, 171 cm, 30 years: 1723.75 and 1557.75 round to 1723.8 and 1557.8
C15_Witness ==
    /\ bmrCall.done
    /\ bmrCall.weight_kg = 80 /\ bmrCall.height_cm = 171 /\ bmrCall.age = 30
    /\ bmrCall.male = Some(17238)
    /\ bmrCall.female = Some(15578)

\* reachable as well: a negative female value (21 kg, 51 cm, 120 years)
C15_NegativeSeen ==
    /\ bmrCall.done
    /\ bmrCall.weight_kg = 21 /\ bmrCall.height_cm = 51 /\ bmrCall.age = 120
    /\ bmrCall.male = Some(0 - 662)
    /\ bmrCall.female = Some(0 - 2322)

(***************************************************************************)
(* Muscle recovery: GET /analytics/muscle-recovery                         *)
(* (src/app/api/v1/endpoints/analytics.py).                                *)
(*                                                                         *)
(* Times are whole hours, weights whole kilograms.  Volumes are kept in    *)
(* quarter units (the factors 1.0, 0.5 and 0.25 become 4, 2 and 1), so     *)
(* every sum and the comparison with 1.3 times the average are exact.      *)
(* exp(-hours/24) is a fixed-point value with four decimals; fatigue       *)
(* scores are hundredths and agree with the float result to within one     *)
(* hundredth.                                                              *)
(***************************************************************************)
\* the clock reading of the request and the two cutoffs derived from it
now        == 1000
cutoff_48h == now - 48
cutoff_28d == now - 28 * 24

\* the muscle_groups table; group 4 is referenced by no exercise
all_muscles == {1, 2, 3, 4}

\* primary, secondary and tertiary muscle group of each exercise (nullable)
ExerciseMuscles ==
    [e \in {1, 2, 3} |->
        CASE e = 1 -> <<Some(1), Some(2), Some(3)>>
          [] e = 2 -> <<Some(2), None, None>>
          [] e = 3 -> <<None, Some(3), Some(3)>>]

\* weights in quarter units
_volume_weight(primary, secondary, tertiary) ==
    IF primary THEN 4
    ELSE IF secondary THEN 2
    ELSE IF tertiary THEN 1
    ELSE 0

\* x or 0
Or0(x) == IF x = None THEN 0 ELSE Get(x)

\* vol of one set for one muscle reference
SetVolume(s, factor) ==
    IF Or0(s.duration_seconds) # 0
    THEN Or0(s.duration_seconds) * factor
    ELSE (Or0(s.weight) * Or0(s.reps)) * factor

\* the three (mg_id, is_p, is_s, is_t) references of the inner loop, as
\* positions 1..3; those that are null are skipped
Factor(i) == _volume_weight(i = 1, i = 2, i = 3)

Refs(s, mg) == {i \in 1..3 : ExerciseMuscles[s.exercise_id][i] = Some(mg)}

RECURSIVE SumRefs(_, _)
SumRefs(s, is) ==
    IF is = {} THEN 0
    ELSE LET i == CHOOSE j \in is : TRUE
         IN SetVolume(s, Factor(i)) + SumRefs(s, is \ {i})

RECURSIVE SumVolume(_, _)
SumVolume(rows, mg) ==
    IF rows = {} THEN 0
    ELSE LET s == CHOOSE r \in rows : TRUE
         IN SumRefs(s, Refs(s, mg)) + SumVolume(rows \ {s}, mg)

\* the rows the query returns: sets of workouts started at or after cutoff_28d
QueryRows(rows, started) == {s \in rows : started[s.workout_id] >= cutoff_28d}

InRecentWindow(started_at) == started_at >= cutoff_48h

total_vol_28d(q, mg) == SumVolume(q, mg)

recent_vol(q, started, mg) ==
    SumVolume({s \in q : InRecentWindow(started[s.workout_id])}, mg)

workout_ids_28d(q, mg) == {s.workout_id : s \in {r \in q : Refs(r, mg) # {}}}

last_trained(q, started, mg) ==
    LET ws == workout_ids_28d(q, mg)
    IN IF ws = {} THEN None
       ELSE Some(CHOOSE t \in {started[w] : w \in ws} :
                    \A w \in ws : started[w] <= t)

\* exp(-hours_since / 24), four decimals
RECURSIVE Decay(_)
Decay(hours_since) ==
    IF hours_since = 0 THEN 10000
    ELSE IF hours_since >= 24 THEN (Decay(hours_since - 24) * 3679) \div 10000
    ELSE (Decay(hours_since - 1) * 9592) \div 10000

\* decay for a muscle: 0.0 when never trained, hours_since floored at 0
MuscleDecay(lt) ==
    IF lt = None THEN 0
    ELSE Decay(IF now - Get(lt) > 0 THEN now - Get(lt) ELSE 0)

\* raw_fatigue as a fraction num / den counted in hundredths
raw_fatigue(total, sessions, recent, decay) ==
    IF total > 0
    THEN [num |-> recent * sessions * decay, den |-> total * 100]
    ELSE [num |-> IF recent > 0 THEN decay ELSE 0, den |-> 100]

fatigue_score_unclamped(raw) == RoundHalfEven(raw.num, raw.den)

\* round(min(max(raw_fatigue, 0.0), 1.0), 2), in hundredths
fatigue_score(raw) ==
    IF raw.num <= 0 THEN 0
    ELSE IF raw.num >= 100 * raw.den THEN 100
    ELSE RoundHalfEven(raw.num, raw.den)

overstrained_at_threshold(total, sessions, recent) ==
    IF total > 0 THEN recent * 10 * sessions >= total * 13 ELSE FALSE

\* recent > avg_session_vol * 1.3 if avg_session_vol > 0 else False, with
\* avg_session_vol = total / max(sessions, 1)
overstrained(total, sessions, recent) ==
    IF total > 0 THEN recent * 10 * sessions > total * 13 ELSE FALSE

\* one entry of the muscles list, with the totals it was computed from
Muscle(q, started, mg) ==
    LET total    == total_vol_28d(q, mg)
        sessions == Cardinality(workout_ids_28d(q, mg))
        recent   == recent_vol(q, started, mg)
        lt       == last_trained(q, started, mg)
    IN [id            |-> mg,
        total_vol_28d |-> total,
        sessions      |-> sessions,
        recent_vol    |-> recent,
        last_trained  |-> lt,
        fatigue_score |-> fatigue_score(raw_fatigue(total, sessions, recent, MuscleDecay(lt))),
        overstrained  |-> overstrained(total, sessions, recent)]

ScoredMusclesTrainedOnly(order, q) ==
    SelectSeq(order, LAMBDA mg : workout_ids_28d(q, mg) # {})

\* the muscle groups that get an entry: all of all_muscles, in table order
ScoredMuscles(order, q) == order

\* list.sort(key = -fatigue_score): stable, descending
RECURSIVE InsertByFatigue(_, _)
InsertByFatigue(sorted, m) ==
    IF sorted = <<>> THEN <<m>>
    ELSE IF Head(sorted).fatigue_score >= m.fatigue_score
         THEN <<Head(sorted)>> \o InsertByFatigue(Tail(sorted), m)
         ELSE <<m>> \o sorted

RECURSIVE SortByFatigue(_)
SortByFatigue(muscles) ==
    IF muscles = <<>> THEN <<>>
    ELSE InsertByFatigue(SortByFatigue(SubSeq(muscles, 1, Len(muscles) - 1)),
                         muscles[Len(muscles)])

muscle_recovery(rows, started, order) ==
    LET q      == QueryRows(rows, started)
        scored == ScoredMuscles(order, q)
    IN SortByFatigue([i \in 1..Len(scored) |-> Muscle(q, started, scored[i])])

(***************************************************************************)
(* SpecRec: one call of muscle_recovery on a stored fixture.               *)
(***************************************************************************)
MaxRecRows == 3

RecWorkouts == {1, 2}

\* start times around both cutoffs, at the clock reading and after it
\* (started_at is client-settable through PATCH /workouts/{id})
StartTimes ==
    {cutoff_28d - 1, cutoff_28d, now - 100, cutoff_48h - 1, cutoff_48h, now - 10, now, now + 5}

RecRow(id, wid, ex, weight, reps, dur) ==
    [id |-> id, workout_id |-> wid, exercise_id |-> ex,
     weight |-> weight, reps |-> reps, duration_seconds |-> dur]

\* candidate sets; weight, reps and duration_seconds are unvalidated, so
\* zero and negative values occur
RecRowPool ==
    { RecRow(1, 1, 1, Some(30), Some(10), None),
      RecRow(2, 1, 1, Some(70), Some(10), Some(0)),
      RecRow(3, 2, 1, Some(130), Some(10), None),
      RecRow(4, 2, 2, Some(50), Some(5), Some(60)),
      RecRow(5, 1, 2, None, None, None),
      RecRow(6, 2, 3, Some(40), Some(10), Some(0)),
      RecRow(7, 1, 2, Some(0 - 20), Some(5), None),
      RecRow(8, 2, 2, None, None, Some(0 - 30)) }

\* the orders in which the muscle_groups query (no ORDER BY) can return rows
MuscleOrders ==
    {o \in [1..Cardinality(all_muscles) -> all_muscles] :
        \A mg \in all_muscles : \E i \in DOMAIN o : o[i] = mg}

InitRec ==
    /\ recCall \in [done : {FALSE},
                    rows : {r \in SUBSET RecRowPool : Cardinality(r) <= MaxRecRows},
                    started : [RecWorkouts -> StartTimes]]
    /\ DbAtRest /\ prCall = NoCall
    /\ StreakAtRest /\ CalAtRest /\ BodyAtRest
    /\ ApiAtRest

MuscleRecovery ==
    /\ ~recCall.done
    /\ \E order \in MuscleOrders :
          recCall' = [done |-> TRUE, rows |-> recCall.rows, started |-> recCall.started,
                      order |-> order,
                      muscles |-> muscle_recovery(recCall.rows, recCall.started, order)]
    /\ UNCHANGED prVars /\ UNCHANGED streakVars /\ UNCHANGED calVars
    /\ UNCHANGED bodyVars
    /\ UNCHANGED apiVars

NextRec == MuscleRecovery

SpecRec == InitRec /\ [][NextRec]_vars

(***************************************************************************)
(* Claims about muscle_recovery (SpecRec).                                 *)
(***************************************************************************)
\* the entry of muscle group mg in the returned list
EntryOf(mg) ==
    recCall.muscles[CHOOSE i \in DOMAIN recCall.muscles : recCall.muscles[i].id = mg]

\* exercise ex references muscle group mg
Targets(ex, mg) == \E i \in 1..3 : ExerciseMuscles[ex][i] = Some(mg)

\* the stored sets that belong to a workout started at or after t
SetsSince(t) == {s \in recCall.rows : recCall.started[s.workout_id] >= t}

C17_ScoresBoundedAndSorted ==
    recCall.done =>
        /\ \A i \in DOMAIN recCall.muscles :
              /\ 0 <= recCall.muscles[i].fatigue_score
              /\ recCall.muscles[i].fatigue_score <= 100
        /\ \A i, j \in DOMAIN recCall.muscles :
              i < j => recCall.muscles[i].fatigue_score >= recCall.muscles[j].fatigue_score

\* the table order 4, 1, 2, 3 comes back as 3, 2, 4, 1: muscle 3 has 1.6 times
\* its session average ten hours after training (1.05 before the cut to
\* 1.0), muscle 2 scores 0.38, muscles 4 and 1 score 0.0 in table order
C17_Witness ==
    /\ recCall.done
    /\ recCall.rows = {RecRow(1, 1, 1, Some(30), Some(10), None),
                       RecRow(4, 2, 2, Some(50), Some(5), Some(60)),
                       RecRow(6, 2, 3, Some(40), Some(10), Some(0))}
    /\ recCall.started[1] = now - 100 /\ recCall.started[2] = now - 10
    /\ recCall.order = <<4, 1, 2, 3>>
    /\ [i \in 1..4 |-> recCall.muscles[i].id] = <<3, 2, 4, 1>>
    /\ [i \in 1..4 |-> recCall.muscles[i].fatigue_score] = <<100, 38, 0, 0>>
    /\ EntryOf(3).recent_vol * EntryOf(3).sessions * Decay(10)
          > EntryOf(3).total_vol_28d * 10000

\* reachable as well: a negative 48-hour volume against a positive average
C17_NegativeRatioSeen ==
    /\ recCall.done
    /\ \E mg \in all_muscles :
          /\ EntryOf(mg).total_vol_28d > 0
          /\ EntryOf(mg).recent_vol < 0
          /\ EntryOf(mg).last_trained # None
          /\ EntryOf(mg).fatigue_score = 0

\* C18: a muscle is overstrained exactly when its average session volume (the
\* 28-day total divided by the number of distinct workouts that hit it, at
\* least 1) is positive and its 48-hour volume exceeds 1.3 times that
\* average; a muscle whose average is zero is never flagged.
C18_OverstrainedRule ==
    recCall.done =>
        \A mg \in all_muscles :
            LET e == EntryOf(mg)
                hit == {s.workout_id : s \in {r \in SetsSince(cutoff_28d) :
                                                 Targets(r.exercise_id, mg)}}
                n == IF Cardinality(hit) >= 1 THEN Cardinality(hit) ELSE 1
            IN /\ e.sessions = Cardinality(hit)
               /\ e.overstrained <=> (e.total_vol_28d > 0
                                      /\ 10 * n * e.recent_vol > 13 * e.total_vol_28d)
               /\ e.total_vol_28d = 0 => ~e.overstrained

\* 300 a hundred hours ago and 1300 ten hours ago: average 800, 1300 > 1040
C18_Witness ==
    /\ recCall.done
    /\ recCall.rows = {RecRow(1, 1, 1, Some(30), Some(10), None),
                       RecRow(3, 2, 1, Some(130), Some(10), None)}
    /\ recCall.started[1] = now - 100 /\ recCall.started[2] = now - 10
    /\ EntryOf(1).sessions = 2
    /\ EntryOf(1).total_vol_28d = 4 * 1600
    /\ EntryOf(1).recent_vol = 4 * 1300
    /\ EntryOf(1).overstrained
    /\ ~EntryOf(4).overstrained

\* reachable as well: exactly 1.3 times the average (700 and 1300) is not
\* flagged, and neither is a trained muscle whose volumes are all zero
C18_AtThresholdSeen ==
    /\ recCall.done
    /\ recCall.rows = {RecRow(2, 1, 1, Some(70), Some(10), Some(0)),
                       RecRow(3, 2, 1, Some(130), Some(10), None)}
    /\ recCall.started[1] = now - 100 /\ recCall.started[2] = now - 10
    /\ 10 * 2 * EntryOf(1).recent_vol = 13 * EntryOf(1).total_vol_28d
    /\ ~EntryOf(1).overstrained

C18_ZeroAverageSeen ==
    /\ recCall.done
    /\ recCall.rows = {RecRow(5, 1, 2, None, None, None)}
    /\ recCall.started[1] = now
    /\ EntryOf(2).sessions = 1
    /\ EntryOf(2).total_vol_28d = 0
    /\ EntryOf(2).last_trained = Some(now)
    /\ ~EntryOf(2).overstrained

\* what set s adds to muscle group mg, in quarter units: duration_seconds
\* when non-zero, weight * reps otherwise, once per reference with factor
\* 1.0 (primary), 0.5 (secondary), 0.25 (tertiary)
Contribution(s, mg) ==
    LET refs   == ExerciseMuscles[s.exercise_id]
        amount == IF s.duration_seconds # None /\ s.duration_seconds # Some(0)
                  THEN Get(s.duration_seconds)
                  ELSE IF s.weight = None \/ s.reps = None THEN 0
                  ELSE Get(s.weight) * Get(s.reps)
    IN amount * ((IF refs[1] = Some(mg) THEN 4 ELSE 0)
                   + (IF refs[2] = Some(mg) THEN 2 ELSE 0)
                   + (IF refs[3] = Some(mg) THEN 1 ELSE 0))

RECURSIVE Contributions(_, _)
Contributions(ss, mg) ==
    IF ss = {} THEN 0
    ELSE LET s == CHOOSE r \in ss : TRUE
         IN Contribution(s, mg) + Contributions(ss \ {s}, mg)

\* C19: each fetched set contributes to each non-null muscle of its exercise
\* duration_seconds * factor when its duration is non-zero and weight * reps *
\* factor otherwise (factors 1.0, 0.5, 0.25); the contribution is always added
\* to the 28-day total, and to the 48-hour total only when the workout
\* started within the last 48 hours.
C19_RecentOnlyLast48h ==
    recCall.done =>
        \A mg \in all_muscles :
            /\ EntryOf(mg).total_vol_28d = Contributions(SetsSince(cutoff_28d), mg)
            /\ EntryOf(mg).recent_vol =
                  Contributions({s \in SetsSince(cutoff_48h) :
                                    recCall.started[s.workout_id] <= now}, mg)

\* the part of C19 that holds: the 48-hour total takes every fetched set
\* whose workout has started_at >= now - 48 hours, a start after now included
C19_RecentFromCutoff ==
    recCall.done =>
        \A mg \in all_muscles :
            /\ EntryOf(mg).total_vol_28d = Contributions(SetsSince(cutoff_28d), mg)
            /\ EntryOf(mg).recent_vol = Contributions(SetsSince(cutoff_48h), mg)

\* a duration set and a set that names muscle 3 twice ten hours ago, a
\* weight set a hundred hours ago
C19_MixedSeen ==
    /\ recCall.done
    /\ recCall.rows = {RecRow(1, 1, 1, Some(30), Some(10), None),
                       RecRow(4, 2, 2, Some(50), Some(5), Some(60)),
                       RecRow(6, 2, 3, Some(40), Some(10), Some(0))}
    /\ recCall.started[1] = now - 100 /\ recCall.started[2] = now - 10
    /\ EntryOf(1).total_vol_28d = 1200 /\ EntryOf(1).recent_vol = 0
    /\ EntryOf(2).total_vol_28d = 840 /\ EntryOf(2).recent_vol = 240
    /\ EntryOf(3).total_vol_28d = 1500 /\ EntryOf(3).recent_vol = 1200

\* a workout dated five hours after the clock reading counts as recent
C19_FutureStartSeen ==
    /\ recCall.done
    /\ recCall.rows = {RecRow(3, 2, 1, Some(130), Some(10), None)}
    /\ recCall.started[2] = now + 5
    /\ EntryOf(1).recent_vol = 4 * 1300
    /\ EntryOf(1).fatigue_score = 100

(***************************************************************************)
(* SpecLimits: the set endpoints served one request at a time on a workout *)
(* that is close to both session limits (20 exercises, 10 sets per         *)
(* exercise).  The handlers are those of SpecSerial.                       *)
(***************************************************************************)
MaxLimitRows == 30

LimitWorkouts == {1, 2}

\* the table after 27 accepted requests POST /workouts/1/sets with empty
\* payloads: ids 1..9 for exercise 1, ids 10..27 for exercises 2..19
NearLimits ==
    {Row(i, 1, IF i <= 9 THEN 1 ELSE i - 8, None, None, None, FALSE, None) : i \in 1..27}

\* (workout, exercise) of the POST requests: exercise 1 has nine sets in
\* workout 1, exercises 20 and 21 are not in it yet; workout 2 is empty
LimitRequests == {<<1, 1>>, <<1, 20>>, <<1, 21>>, <<2, 1>>}

\* the rows a PATCH or DELETE addresses: a set of exercise 1, the only set of
\* exercise 19, and the first row added since
AddressedIds == {1, 27, 28}

InitLimits ==
    /\ sets = NearLimits
    /\ req = <<>> /\ resp = None
    /\ DetectAtRest /\ StreakAtRest /\ CalAtRest
    /\ BodyAtRest /\ RecAtRest
    /\ ApiAtRest

AddSetLimits ==
    \E r \in LimitRequests :
        /\ Cardinality(sets) < MaxLimitRows
        /\ add_set_to_workout(r[1], r[2], None, None, None)

UpdateSetLimits ==
    \E wid \in LimitWorkouts, id \in {1, 28} :
        update_set(wid, id, Unset, Some(Some(2)), Unset)

DeleteSetLimits ==
    \E wid \in LimitWorkouts, id \in AddressedIds : delete_set(wid, id)

NextLimits == AddSetLimits \/ UpdateSetLimits \/ DeleteSetLimits

SpecLimits == InitLimits /\ [][NextLimits]_vars

\* every workout holds at most 10 sets per exercise and 20 distinct exercises
WithinLimits(tbl) ==
    \A wid \in {s.workout_id : s \in tbl} :
        /\ Cardinality({s.exercise_id : s \in {t \in tbl : t.workout_id = wid}})
              <= MAX_EXERCISES_PER_SESSION
        /\ \A ex \in {s.exercise_id : s \in tbl} :
              Cardinality({s \in tbl : s.workout_id = wid /\ s.exercise_id = ex})
                 <= MAX_SETS_PER_EXERCISE_PER_SESSION

\* row s would take its workout past a limit of table tbl
BeyondLimit(tbl, s) ==
    LET inWorkout == {t \in tbl : t.workout_id = s.workout_id}
        sameEx    == {t \in inWorkout : t.exercise_id = s.exercise_id}
    IN \/ Cardinality(sameEx) >= 10
       \/ sameEx = {} /\ Cardinality({t.exercise_id : t \in inWorkout}) >= 20

\* C20: after any serial sequence of add_set, update_set and delete_set
\* requests every workout holds at most 10 sets per exercise and at most 20
\* distinct exercises; an add_set beyond a limit is answered 400 and stores
\* no set.
C20_LimitsHoldSerially ==
    /\ [](WithinLimits(sets))
    /\ [][/\ \A s \in sets' \ sets :
                (\A t \in sets : t.id # s.id) => ~BeyondLimit(sets, s)
          /\ resp' = Some(BAD_REQUEST) =>
                /\ sets' = sets
                /\ \E r \in LimitRequests :
                      BeyondLimit(sets, Row(0, r[1], r[2], None, None, None, FALSE, None))
          /\ resp' = Some(CREATED) => Cardinality(sets') = Cardinality(sets) + 1]_vars

\* workout 1 is full on both counts (ten sets of exercise 1, twenty
\* exercises) and the last request was refused
C20_Witness ==
    /\ resp = Some(BAD_REQUEST)
    /\ Cardinality({s \in sets : s.workout_id = 1 /\ s.exercise_id = 1}) = 10
    /\ Cardinality({s.exercise_id : s \in {t \in sets : t.workout_id = 1}}) = 20
    /\ \A s \in sets : s.workout_id = 1 => s.exercise_id # 21

\* reachable as well: room made by a delete is used again (exercise 19 gone,
\* exercises 20 and 21 in)
C20_ReplacedSeen ==
    /\ resp = Some(CREATED)
    /\ \A s \in sets : s.workout_id = 1 => s.exercise_id # 19
    /\ \E s \in sets : s.workout_id = 1 /\ s.exercise_id = 20
    /\ \E s \in sets : s.workout_id = 1 /\ s.exercise_id = 21

(***************************************************************************)
(* Body logs: POST /body/log and PATCH /body/log/{id}                      *)
(* (src/app/api/v1/endpoints/body.py), one profile and one log.            *)
(* Units as in the body analytics section.                                 *)
(***************************************************************************)
\* the stored profile (user_bio)
LogBio == [height_cm |-> 180, age |-> 30, sex |-> "male"]

LogKeys == {"waist", "neck", "hips"}

\* a measurements dict: one optional value per key, None where the key is
\* missing; a null column and an empty dict read the same everywhere
NoMeasurements == [k \in LogKeys |-> None]

Girths(waist, neck) == [NoMeasurements EXCEPT !.waist = waist, !.neck = neck]

\* a or b
OrElse(a, b) == IF a # None /\ a # Some(0) THEN a ELSE b

\* existing.update(payload.measurements)
Merged(existing, given) == [k \in LogKeys |-> IF given[k] # None THEN given[k] ELSE existing[k]]

LogStats(weight_kg, measurements, manual_bf) ==
    compute_all_stats(weight_kg, LogBio.height_cm, LogBio.age, LogBio.sex,
                      measurements, manual_bf)

\* line 314: manual_bf = log.body_fat_pct, the stored column after the
\* partial update (line 298)
UpdateManual(log, payload) ==
    IF payload.body_fat_pct # None THEN payload.body_fat_pct ELSE log.body_fat_pct

\* the payloads: weight_kg and body_fat_pct optional and within the schema
\* ranges, measurements an optional dict
CreatePayloads ==
    [weight_kg : {None, Some(80)},
     body_fat_pct : {None, Some(155)},
     measurements : {None, Some(Girths(Some(85), Some(38))), Some(Girths(Some(85), None))}]

UpdatePayloads ==
    [weight_kg : {None, Some(90)},
     body_fat_pct : {None, Some(200)},
     measurements : {None, Some(Girths(Some(100), None)), Some(Girths(None, Some(40)))}]

\* POST /body/log; no earlier log exists, so a payload without weight is
\* answered 400
create_body_log(payload) ==
    IF payload.weight_kg = None
    THEN /\ resp' = Some(BAD_REQUEST)
         /\ UNCHANGED bodyLog
    ELSE LET weight == Get(payload.weight_kg)
             given  == IF payload.measurements = None THEN NoMeasurements
                       ELSE Get(payload.measurements)
             stats  == LogStats(weight, given, payload.body_fat_pct)
         IN /\ bodyLog' = [done           |-> TRUE,
                           op             |-> "create",
                           payload        |-> payload,
                           weight_kg      |-> weight,
                           body_fat_pct   |-> OrElse(stats.bf_navy, payload.body_fat_pct),
                           measurements   |-> given,
                           computed_with  |-> given,
                           computed_stats |-> stats,
                           manual         |-> payload.body_fat_pct]
            /\ resp' = Some(CREATED)

\* PATCH /body/log/{id}.  The measurements dict is updated in place and the
\* same object is assigned back (lines 301-303), so whether the column is
\* written is left to the ORM's change detection: the row keeps either the
\* merged dict or the one it had.  `manual` is the last body_fat_pct a
\* client sent for this log.
update_body_log(payload) ==
    IF ~bodyLog.done
    THEN /\ resp' = Some(NOT_FOUND)
         /\ UNCHANGED bodyLog
    ELSE LET weight == IF payload.weight_kg # None THEN Get(payload.weight_kg)
                       ELSE bodyLog.weight_kg
             merged == IF payload.measurements # None
                       THEN Merged(bodyLog.measurements, Get(payload.measurements))
                       ELSE bodyLog.measurements
             manual == UpdateManual(bodyLog, payload)
             stats  == LogStats(weight, merged, manual)
         IN /\ \E kept \in {merged, bodyLog.measurements} :
                  bodyLog' = [done           |-> TRUE,
                              op             |-> "update",
                              payload        |-> payload,
                              weight_kg      |-> weight,
                              body_fat_pct   |-> OrElse(stats.bf_navy, manual),
                              measurements   |-> kept,
                              computed_with  |-> merged,
                              computed_stats |-> stats,
                              manual         |-> IF payload.body_fat_pct # None
                                                 THEN payload.body_fat_pct
                                                 ELSE bodyLog.manual]
            /\ resp' = Some(OK)

InitLog ==
    /\ bodyLog = NoCall
    /\ PlateauAtRest /\ WorkoutAtRest /\ KcalAtRest /\ RmAtRest /\ PlateAtRest
    /\ DbAtRest /\ DetectAtRest /\ StreakAtRest /\ CalAtRest
    /\ BodyAtRest /\ RecAtRest

CreateBodyLog ==
    /\ ~bodyLog.done
    /\ \E payload \in CreatePayloads : create_body_log(payload)
    /\ UNCHANGED <<sets, req, prCall>>
    /\ UNCHANGED streakVars /\ UNCHANGED calVars
    /\ UNCHANGED bodyVars /\ UNCHANGED recVars
    /\ UNCHANGED <<plateauCall, workout, kcalCall, rmCall, plateCall>>

UpdateBodyLog ==
    /\ \E payload \in UpdatePayloads : update_body_log(payload)
    /\ UNCHANGED <<sets, req, prCall>>
    /\ UNCHANGED streakVars /\ UNCHANGED calVars
    /\ UNCHANGED bodyVars /\ UNCHANGED recVars
    /\ UNCHANGED <<plateauCall, workout, kcalCall, rmCall, plateCall>>

NextLog == CreateBodyLog \/ UpdateBodyLog

SpecLog == InitLog /\ [][NextLog]_vars

\* C21: update_body_log re-computes all stats: after a PATCH, every entry of
\* computed_stats, bf_navy and ffmi included, is what compute_all_stats
\* yields for the updated weight and measurements and the manual body-fat
\* value of the log; for a log that never got a manual value, bf_navy is the
\* Navy formula applied to the new measurements.
C21_PatchRecomputesAll ==
    (bodyLog.done /\ bodyLog.op = "update") =>
        /\ bodyLog.computed_stats
              = LogStats(bodyLog.weight_kg, bodyLog.computed_with, bodyLog.manual)
        /\ bodyLog.manual = None =>
              bodyLog.computed_stats.bf_navy
                 = calc_navy_bf(LogBio.sex, LogBio.height_cm, bodyLog.computed_with.waist,
                                bodyLog.computed_with.neck, bodyLog.computed_with.hips)

\* the parts that are recomputed: bmr and the formulas that take no
\* body-fat input follow the updated weight and measurements
C21_OthersRecomputed ==
    (bodyLog.done /\ bodyLog.op = "update") =>
        LET fresh == LogStats(bodyLog.weight_kg, bodyLog.computed_with, bodyLog.manual)
        IN \A k \in {"bmr", "bf_cun_bae", "bf_army", "bf_rfm", "bf_multi"} :
              bodyLog.computed_stats[k] = fresh[k]

\* a log created with waist 85 and neck 38 and no manual value (Navy 16.2,
\* written to body_fat_pct), then patched with waist 100: bf_navy is still
\* 16.2 although the Navy formula gives 26.5 for the new waist
C21_StaleNavySeen ==
    /\ bodyLog.done /\ bodyLog.op = "update"
    /\ bodyLog.manual = None
    /\ bodyLog.payload.measurements = Some(Girths(Some(100), None))
    /\ bodyLog.computed_with = Girths(Some(100), Some(38))
    /\ bodyLog.computed_stats.bf_navy
          = calc_navy_bf("male", 180, Some(85), Some(38), None)
    /\ bodyLog.computed_stats.bf_navy
          # calc_navy_bf("male", 180, Some(100), Some(38), None)

(***************************************************************************)
(* Plateau alerts: GET /tools/plateau-alerts                               *)
(* (src/app/api/v1/endpoints/tools.py), the loop body for one exercise.    *)
(* Weights are whole kilograms.                                            *)
(***************************************************************************)
PLATEAU_SESSIONS_THRESHOLD == 3

MaxPlateauSets == 4

\* workouts in the order of their started_at: a larger id started later
PlateauWorkouts == 1..4

\* the sets of the exercise in one workout: `count` rows, the first with the
\* payload `top`, the others a 40 kg x 5 warm-up
PlateauTops ==
    { [weight |-> Some(60), reps |-> Some(5), duration_seconds |-> None],
      [weight |-> Some(70), reps |-> Some(5), duration_seconds |-> None],
      [weight |-> None, reps |-> None, duration_seconds |-> Some(30)] }

WarmUp == [weight |-> Some(40), reps |-> Some(5), duration_seconds |-> None]

SessionSets(session) ==
    IF session.count = 0 THEN {}
    ELSE IF session.count = 1 THEN {session.top}
    ELSE {session.top, WarmUp}

\* the rows of the join workouts x workout_sets for the exercise, ordered by
\* started_at descending: one row per SET, each carrying its workout's id
RECURSIVE Repeat(_, _)
Repeat(x, k) == IF k = 0 THEN <<>> ELSE <<x>> \o Repeat(x, k - 1)

RECURSIVE JoinedRows(_, _)
JoinedRows(fixture, w) ==
    IF w = 0 THEN <<>>
    ELSE Repeat(w, fixture[w].count) \o JoinedRows(fixture, w - 1)

RECURSIVE DistinctRows(_, _)
DistinctRows(fixture, w) ==
    IF w = 0 THEN <<>>
    ELSE (IF fixture[w].count > 0 THEN <<w>> ELSE <<>>) \o DistinctRows(fixture, w - 1)

\* .limit(n)
Limit(rows, n) == SubSeq(rows, 1, IF Len(rows) < n THEN Len(rows) ELSE n)

\* lines 107-115: the last n rows; their workout ids
LastWorkouts(fixture, n) == Limit(JoinedRows(fixture, Cardinality(PlateauWorkouts)), n)

\* lines 123-136: max(weight), max(weight * coalesce(reps, 0)),
\* max(duration_seconds) of the exercise in one workout, NULL read as 0
SessionStats(fixture, wid) ==
    LET ss == SessionSets(fixture[wid])
    IN [wid     |-> wid,
        max_w   |-> ScalarOr0({Get(r.weight) : r \in {t \in ss : t.weight # None}}),
        max_vol |-> ScalarOr0({Get(r.weight) * Or0(r.reps) :
                                  r \in {t \in ss : t.weight # None}}),
        max_dur |-> ScalarOr0({Get(r.duration_seconds) :
                                  r \in {t \in ss : t.duration_seconds # None}})]

\* line 143
NoImprovement(cur, prev) ==
    cur.max_w <= prev.max_w /\ cur.max_vol <= prev.max_vol /\ cur.max_dur <= prev.max_dur

\* lines 139-146: comparisons from the most recent on, until the first
\* improvement
RECURSIVE ConsecutiveNoImprove(_, _)
ConsecutiveNoImprove(stats, i) ==
    IF i >= Len(stats) THEN 0
    ELSE IF NoImprovement(stats[i], stats[i + 1])
    THEN 1 + ConsecutiveNoImprove(stats, i + 1)
    ELSE 0

\* the loop body: None when the exercise is skipped or not alerted
plateau_alert(fixture) ==
    LET n        == PLATEAU_SESSIONS_THRESHOLD + 1
        workouts == LastWorkouts(fixture, n)
        stats    == [i \in 1..Len(workouts) |-> SessionStats(fixture, workouts[i])]
        count    == ConsecutiveNoImprove(stats, 1)
    IN IF Len(workouts) < n THEN None
       ELSE IF count >= PLATEAU_SESSIONS_THRESHOLD
       THEN Some([sessions_without_improvement |-> count,
                  last_workout_id |-> stats[1].wid])
       ELSE None

InitPlateau ==
    /\ plateauCall \in [done : {FALSE},
                        fixture : [PlateauWorkouts ->
                                     [count : 0..MaxPlateauSets, top : PlateauTops]]]
    /\ LogAtRest /\ WorkoutAtRest /\ KcalAtRest /\ RmAtRest /\ PlateAtRest
    /\ DbAtRest /\ DetectAtRest /\ StreakAtRest /\ CalAtRest
    /\ BodyAtRest /\ RecAtRest

PlateauAlerts ==
    /\ ~plateauCall.done
    /\ plateauCall' = [done |-> TRUE, fixture |-> plateauCall.fixture,
                       alert |-> plateau_alert(plateauCall.fixture)]
    /\ UNCHANGED <<bodyLog, workout, kcalCall, rmCall, plateCall>>
    /\ UNCHANGED prVars /\ UNCHANGED streakVars /\ UNCHANGED calVars
    /\ UNCHANGED bodyVars /\ UNCHANGED recVars

NextPlateau == PlateauAlerts

SpecPlateau == InitPlateau /\ [][NextPlateau]_vars

\* the workouts that contain the exercise, most recent first
Performed == DistinctRows(plateauCall.fixture, Cardinality(PlateauWorkouts))

\* C22: plateau_alerts lists an exercise only if it was performed in at least
\* 4 distinct workouts and, in each of the 3 comparisons between one of its
\* most recent sessions and the session before it, max weight, max volume
\* and max duration all failed to increase; an exercise performed in fewer
\* than 4 workouts is never listed, however many sets one workout contains.
C22_ListedOnlyAfterFourWorkouts ==
    (plateauCall.done /\ plateauCall.alert # None) =>
        /\ Len(Performed) >= 4
        /\ \A i \in 1..3 :
              NoImprovement(SessionStats(plateauCall.fixture, Performed[i]),
                            SessionStats(plateauCall.fixture, Performed[i + 1]))

\* four workouts with one set each, none better than the one before: listed
C22_TruePlateauSeen ==
    /\ plateauCall.done
    /\ \A w \in PlateauWorkouts : plateauCall.fixture[w].count = 1
    /\ \A w \in 2..4 :
          NoImprovement(SessionStats(plateauCall.fixture, w),
                        SessionStats(plateauCall.fixture, w - 1))
    /\ plateauCall.alert # None

\* one workout with four sets of the exercise and no other workout: listed
C22_OneWorkoutListedSeen ==
    /\ plateauCall.done
    /\ plateauCall.fixture[4].count = 4
    /\ \A w \in 1..3 : plateauCall.fixture[w].count = 0
    /\ plateauCall.alert = Some([sessions_without_improvement |-> 3, last_workout_id |-> 4])

(***************************************************************************)
(* PATCH /workouts/{workout_id}: update_workout                            *)
(* (src/app/api/v1/endpoints/workouts.py).  Instants are half seconds, so  *)
(* that a difference need not be a whole number of seconds.                *)
(***************************************************************************)
Instants == {0, 3, 10, 21}

\* int(delta.total_seconds()): truncation toward zero
WholeSeconds(delta) == IF delta >= 0 THEN delta \div 2 ELSE -((-delta) \div 2)

\* line 174
DurationBetween(started, ended) ==
    LET seconds == WholeSeconds(ended - started)
    IN IF seconds > 0 THEN seconds ELSE 0

\* payload.model_dump(exclude_unset=True): None is a field the client did not
\* send, Some(v) a field sent with value v (v itself None for a JSON null)
WorkoutUpdates ==
    [started_at       : {None} \cup {Some(t) : t \in Instants},
     ended_at         : {None, Some(None)} \cup {Some(Some(t)) : t \in Instants},
     duration_seconds : {None, Some(None), Some(Some(7))}]

\* lines 163-176
update_workout(w, data) ==
    LET derive == /\ data.ended_at # None /\ Get(data.ended_at) # None
                  /\ data.duration_seconds = None
        ended    == Get(Get(data.ended_at))
        started  == w.started_at
        duration == IF derive THEN Some(Some(DurationBetween(started, ended)))
                    ELSE data.duration_seconds
    IN [started_at       |-> IF data.started_at # None THEN Get(data.started_at)
                             ELSE w.started_at,
        ended_at         |-> IF data.ended_at # None THEN Get(data.ended_at)
                             ELSE w.ended_at,
        duration_seconds |-> IF duration # None THEN Get(duration)
                             ELSE w.duration_seconds]

InitWorkout ==
    /\ workout \in [done : {FALSE},
                    row : [started_at : Instants, ended_at : {None},
                           duration_seconds : {None}]]
    /\ LogAtRest /\ PlateauAtRest /\ KcalAtRest /\ RmAtRest /\ PlateAtRest
    /\ DbAtRest /\ DetectAtRest /\ StreakAtRest /\ CalAtRest
    /\ BodyAtRest /\ RecAtRest

UpdateWorkout ==
    /\ \E data \in WorkoutUpdates :
          workout' = [done |-> TRUE, row |-> update_workout(workout.row, data),
                      data |-> data]
    /\ UNCHANGED <<bodyLog, plateauCall, kcalCall, rmCall, plateCall>>
    /\ UNCHANGED prVars /\ UNCHANGED streakVars /\ UNCHANGED calVars
    /\ UNCHANGED bodyVars /\ UNCHANGED recVars

NextWorkout == UpdateWorkout

SpecWorkout == InitWorkout /\ [][NextWorkout]_vars

\* the last PATCH sent an ended_at and no duration_seconds
EndedWithoutDuration ==
    /\ workout.done
    /\ workout.data.ended_at # None /\ Get(workout.data.ended_at) # None
    /\ workout.data.duration_seconds = None

\* C23: after a PATCH that sends ended_at and no duration_seconds, the stored
\* duration_seconds is max(0, ended_at - started_at) in whole seconds for the
\* started_at and ended_at stored after the request, including when the same
\* request also changes started_at.
C23_DurationMatchesStoredTimes ==
    EndedWithoutDuration =>
        workout.row.duration_seconds =
            Some(DurationBetween(workout.row.started_at, Get(workout.row.ended_at)))

\* the same, for a PATCH that does not send started_at
C23_DurationWhenStartKept ==
    (EndedWithoutDuration /\ workout.data.started_at = None) =>
        workout.row.duration_seconds =
            Some(DurationBetween(workout.row.started_at, Get(workout.row.ended_at)))

\* a PATCH that moves started_at from 0 s to 5 s and ends the workout at
\* 10.5 s stores 10 s, the time since the replaced started_at
C23_OldStartUsedSeen ==
    /\ EndedWithoutDuration
    /\ workout.data.started_at = Some(10)
    /\ workout.row = [started_at |-> 10, ended_at |-> Some(21),
                      duration_seconds |-> Some(10)]

(***************************************************************************)
(* One workout's estimated calories as computed by get_workout             *)
(* (workouts.py) and by calories_history (analytics.py), for the same      *)
(* body weight.  Results are sets of whole kcal: the values the call can   *)
(* return, {} where no estimate is produced.                               *)
(***************************************************************************)
MaxKcalSets == 2

\* per-set defaults of get_workout, seconds
DEFAULT_ACTIVE_SECONDS == 45
DEFAULT_REST_SECONDS   == 90

KcalSetKinds ==
    { [weight |-> Some(100), reps |-> Some(5), time_under_tension_seconds |-> None,
       rest_seconds_after |-> None],
      [weight |-> None, reps |-> None, time_under_tension_seconds |-> None,
       rest_seconds_after |-> None],
      [weight |-> Some(100), reps |-> Some(5), time_under_tension_seconds |-> Some(30),
       rest_seconds_after |-> Some(60)],
      [weight |-> Some(100), reps |-> Some(5), time_under_tension_seconds |-> Some(0),
       rest_seconds_after |-> None] }

KcalSetLists == UNION {[1..n -> KcalSetKinds] : n \in 0..MaxKcalSets}

\* sum(...) over the sets of a workout
RECURSIVE SumList(_)
SumList(list) == IF list = <<>> THEN 0 ELSE Head(list) + SumList(Tail(list))

\* float(s.weight or 0) * float(s.reps or 0) if both are present
SetTonnage(s) ==
    IF s.weight # None /\ s.reps # None THEN Get(s.weight) * Get(s.reps) ELSE 0

\* workouts.py lines 119-126
ActiveOrDefault(s) ==
    IF s.time_under_tension_seconds # None THEN Get(s.time_under_tension_seconds)
    ELSE DEFAULT_ACTIVE_SECONDS

RestOrDefault(s) ==
    IF s.rest_seconds_after # None THEN Get(s.rest_seconds_after)
    ELSE DEFAULT_REST_SECONDS

\* analytics.py lines 626-627
ActiveOr0(s) == Or0(s.time_under_tension_seconds)

RestOr0(s) == Or0(s.rest_seconds_after)

\* `x if x > 0 else None`
PositiveOrNone(x) == IF x > 0 THEN Some(x) ELSE None

\* round(cal) of a value in tenths
RoundKcal(tenths) == RoundHalfEven(tenths, 10)

\* the common tail of both callers: estimate_calories, then round
RoundedEstimate(weight_kg, seconds, w, active_sec, rest_sec) ==
    { RoundKcal(cal) :
        cal \in estimate_calories(weight_kg, seconds, w.intensity,
                                  PositiveOrNone(SumList([i \in 1..Len(w.sets) |-> SetTonnage(w.sets[i])])),
                                  PositiveOrNone(active_sec), PositiveOrNone(rest_sec)) }

\* workouts.py lines 106-134
get_workout_calories(weight_kg, w) ==
    LET duration_min == get_active_duration_minutes(w.duration_seconds, Len(w.sets))
    IN IF weight_kg = None \/ duration_min <= 0 THEN {}
       ELSE RoundedEstimate(Get(weight_kg), duration_min, w,
                            SumList([i \in 1..Len(w.sets) |-> ActiveOrDefault(w.sets[i])]),
                            SumList([i \in 1..Len(w.sets) |-> RestOrDefault(w.sets[i])]))

\* analytics.py lines 608-636, the loop body for one workout
calories_history_entry(weight_kg, w) ==
    LET duration_min == get_active_duration_minutes(w.duration_seconds, Len(w.sets))
    IN IF weight_kg = None \/ duration_min <= 0 THEN {}
       ELSE RoundedEstimate(Get(weight_kg), duration_min, w,
                            SumList([i \in 1..Len(w.sets) |-> ActiveOr0(w.sets[i])]),
                            SumList([i \in 1..Len(w.sets) |-> RestOr0(w.sets[i])]))

InitKcal ==
    /\ kcalCall \in [done : {FALSE}, weight_kg : {None, Some(80)},
                     workout : [duration_seconds : {None, Some(60), Some(1800)},
                                intensity : {None, Some("vigorous")},
                                sets : KcalSetLists]]
    /\ LogAtRest /\ PlateauAtRest /\ WorkoutAtRest /\ RmAtRest /\ PlateAtRest
    /\ DbAtRest /\ DetectAtRest /\ StreakAtRest /\ CalAtRest
    /\ BodyAtRest /\ RecAtRest

\* GET /workouts/{id} and GET /analytics/calories-history on the same data
GetCalories ==
    /\ ~kcalCall.done
    /\ kcalCall' = [done |-> TRUE, weight_kg |-> kcalCall.weight_kg,
                    workout |-> kcalCall.workout,
                    detail  |-> get_workout_calories(kcalCall.weight_kg, kcalCall.workout),
                    history |-> calories_history_entry(kcalCall.weight_kg,
                                                       kcalCall.workout)]
    /\ UNCHANGED <<bodyLog, plateauCall, workout, rmCall, plateCall>>
    /\ UNCHANGED prVars /\ UNCHANGED streakVars /\ UNCHANGED calVars
    /\ UNCHANGED bodyVars /\ UNCHANGED recVars

NextKcal == GetCalories

SpecKcal == InitKcal /\ [][NextKcal]_vars

\* no set of the workout records time under tension or rest
NoTimingRecorded(w) ==
    \A i \in 1..Len(w.sets) :
        /\ w.sets[i].time_under_tension_seconds = None
        /\ w.sets[i].rest_seconds_after = None

\* MET(intensity) * base * duration_minutes, rounded: the estimate without
\* active and rest seconds
DurationEstimate(weight_kg, w) ==
    RoundedEstimate(weight_kg, get_active_duration_minutes(w.duration_seconds, Len(w.sets)),
                    w, 0, 0)

\* C24: get_workout applies the TUT/rest formula only when sets carry such
\* values: for a workout none of whose sets records
\* time_under_tension_seconds or rest_seconds_after, estimated_calories is
\* MET(intensity) * base * duration_minutes and equals what calories_history
\* computes for the same workout and body weight.
C24_DetailMatchesHistory ==
    (kcalCall.done /\ NoTimingRecorded(kcalCall.workout) /\ kcalCall.detail # {}) =>
        /\ kcalCall.detail = DurationEstimate(Get(kcalCall.weight_kg), kcalCall.workout)
        /\ kcalCall.detail = kcalCall.history

\* calories_history does follow the claim's rule
C24_HistoryUsesDuration ==
    (kcalCall.done /\ NoTimingRecorded(kcalCall.workout) /\ kcalCall.history # {}) =>
        kcalCall.history = DurationEstimate(Get(kcalCall.weight_kg), kcalCall.workout)

\* 80 kg, 30 minutes, one 100 kg x 5 set without timing: the history reports
\* 147 kcal (MET 3.5), the workout's own page 10 kcal (45 s active, 90 s rest)
C24_DefaultsAppliedSeen ==
    /\ kcalCall.done
    /\ kcalCall.weight_kg = Some(80)
    /\ kcalCall.workout.duration_seconds = Some(1800)
    /\ kcalCall.workout.intensity = None
    /\ Len(kcalCall.workout.sets) = 1
    /\ NoTimingRecorded(kcalCall.workout)
    /\ kcalCall.workout.sets[1].weight = Some(100)
    /\ kcalCall.detail = {10}
    /\ kcalCall.history = {147}

(***************************************************************************)
(* Brzycki one-rep-max estimate: the SQL expression _brzycki_1rm_expr and  *)
(* the Python function _brzycki_1rm (exercise_stats.py, analytics.py).     *)
(* An estimate is an exact fraction [num, den] with den > 0; the SQL       *)
(* expression may also be NULL (None).                                     *)
(***************************************************************************)
MaxReps == 40

RmReps == (0 - 2)..MaxReps

RmWeights == {0, 20, 60, 100, 140}

Frac(num, den) == [num |-> num, den |-> den]

SameValue(a, b) == a.num * b.den = b.num * a.den

\* func.nullif(x, 0)
NullIf0(x) == IF x = 0 THEN None ELSE Some(x)

\* exercise_stats.py lines 20-24: CASE WHEN reps >= 37 THEN weight * 1.1
\* ELSE weight * 36.0 / NULLIF(37 - reps, 0) END
_brzycki_1rm_expr(weight, reps) ==
    IF reps >= 37 THEN Some(Frac(weight * 11, 10))
    ELSE LET divisor == NullIf0(37 - reps)
         IN IF divisor = None THEN None
            ELSE Some(Frac(weight * 36, Get(divisor)))

\* exercise_stats.py lines 27-32 and analytics.py lines 113-119
_brzycki_1rm(weight, reps) ==
    IF reps <= 0 THEN Frac(0, 1)
    ELSE IF reps >= 37 THEN Frac(weight * 11, 10)
    ELSE Frac(weight * 36, 37 - reps)

InitRm ==
    /\ rmCall \in [done : {FALSE}, weight : RmWeights, reps : RmReps]
    /\ LogAtRest /\ PlateauAtRest /\ WorkoutAtRest /\ KcalAtRest /\ PlateAtRest
    /\ DbAtRest /\ DetectAtRest /\ StreakAtRest /\ CalAtRest
    /\ BodyAtRest /\ RecAtRest

Brzycki ==
    /\ ~rmCall.done
    /\ rmCall' = [done |-> TRUE, weight |-> rmCall.weight, reps |-> rmCall.reps,
                  sql |-> _brzycki_1rm_expr(rmCall.weight, rmCall.reps),
                  py  |-> _brzycki_1rm(rmCall.weight, rmCall.reps)]
    /\ UNCHANGED <<bodyLog, plateauCall, workout, kcalCall, plateCall>>
    /\ UNCHANGED prVars /\ UNCHANGED streakVars /\ UNCHANGED calVars
    /\ UNCHANGED bodyVars /\ UNCHANGED recVars

NextRm == Brzycki

SpecRm == InitRm /\ [][NextRm]_vars

\* C25: the SQL expression _brzycki_1rm_expr yields the same estimate as the
\* Python _brzycki_1rm for every weight and every integer reps: 0 when
\* reps <= 0, weight * 1.1 when reps >= 37, weight * 36 / (37 - reps)
\* otherwise, never dividing by zero.
C25_SqlEqualsPython ==
    rmCall.done =>
        /\ rmCall.sql # None
        /\ SameValue(Get(rmCall.sql), rmCall.py)
        /\ rmCall.reps <= 0 => SameValue(Get(rmCall.sql), Frac(0, 1))

\* the two agree for every positive reps, and the SQL divisor is never zero
C25_AgreeOnPositiveReps ==
    rmCall.done =>
        /\ rmCall.sql # None
        /\ rmCall.reps > 0 => SameValue(Get(rmCall.sql), rmCall.py)

\* 100 kg x 0 reps: Python gives 0, the SQL expression 100 * 36 / 37
C25_ZeroRepsSeen ==
    /\ rmCall.done
    /\ rmCall.weight = 100 /\ rmCall.reps = 0
    /\ rmCall.py = Frac(0, 1)
    /\ rmCall.sql = Some(Frac(3600, 37))

(***************************************************************************)
(* PR flags of the stored sets under add_set, update_set and delete_set    *)
(* (SpecFlags): the handlers of SpecSerial on the sets of one exercise in  *)
(* one workout, with payloads that differ in weight only.                  *)
(***************************************************************************)
MaxFlagRows == 3

FlagWeights == {None, Some(Kg(1)), Some(Kg(2))}

InitFlags ==
    /\ DbAtRest /\ DetectAtRest /\ StreakAtRest /\ CalAtRest
    /\ BodyAtRest /\ RecAtRest
    /\ ApiAtRest

AddSetFlags ==
    \E weight \in FlagWeights, dur \in PayloadDurations :
        /\ Cardinality(sets) < MaxFlagRows
        /\ add_set_to_workout(1, 1, weight, None, dur)

\* workout 2 does not hold the set addressed: 404
UpdateSetFlags ==
    \E wid \in Workouts, id \in 1..MaxFlagRows,
       weight \in {Unset} \cup {Some(w) : w \in FlagWeights} :
        update_set(wid, id, weight, Unset, Unset)

DeleteSetFlags ==
    \E wid \in Workouts, id \in 1..MaxFlagRows : delete_set(wid, id)

NextFlags == AddSetFlags \/ UpdateSetFlags \/ DeleteSetFlags

SpecFlags == InitFlags /\ [][NextFlags]_vars

\* C26: in every reachable state of the stored workout sets, after any
\* sequence of add_set, update_set and delete_set requests, a set has
\* is_pr = true exactly when its pr_type is non-null.
C26_FlagIffType ==
    \A s \in sets : (s.is_pr = TRUE) <=> (s.pr_type # None)

\* a flagged set and an unflagged one stored together, after a PATCH
C26_Witness ==
    /\ resp = Some(OK)
    /\ \E s \in sets : s.is_pr = TRUE /\ s.pr_type = Some(WEIGHT)
    /\ \E s \in sets : s.is_pr = FALSE /\ s.pr_type = None

\* the fields of a set that no PATCH payload carries
KeptFields(s) == <<s.id, s.workout_id, s.exercise_id, s.is_pr, s.pr_type>>

\* C27: PR flags are assigned once at insertion and never recomputed:
\* update_set changes only the payload fields of the targeted set and leaves
\* its is_pr and pr_type and every other set unchanged; delete_set removes
\* only the targeted set and leaves the flags of all remaining sets unchanged.
C27_FlagsFrozenAfterInsert ==
    [][/\ resp' = Some(OK) =>
            /\ Cardinality(sets \ sets') <= 1
            /\ Cardinality(sets') = Cardinality(sets)
            /\ \A s \in sets : \E t \in sets' : KeptFields(t) = KeptFields(s)
       /\ resp' = Some(NO_CONTENT) =>
            /\ sets' \subseteq sets
            /\ Cardinality(sets \ sets') = 1]_vars

\* a PATCH has raised the weight of an unflagged set above the flagged one's
C27_Witness ==
    /\ resp = Some(OK)
    /\ \E s \in sets, t \in sets :
          /\ s.exercise_id = t.exercise_id
          /\ s.is_pr = TRUE /\ t.is_pr = FALSE
          /\ s.weight # None /\ t.weight # None
          /\ Get(t.weight) > Get(s.weight)

\* a flagged set was deleted and the one left keeps its flags
C27_DeletedSeen ==
    /\ resp = Some(NO_CONTENT)
    /\ \E t \in sets : t.id = 2 /\ t.is_pr = FALSE /\ t.pr_type = None
    /\ Cardinality(sets) = 1

(***************************************************************************)
(* The two counters of get_streak against each other (SpecStreak).         *)
(***************************************************************************)

C28_SingleDateSeen ==
    /\ streak.done
    /\ Supplied = {today}
    /\ streak.out.current_streak = 1
    /\ streak.out.longest_streak = 1

(***************************************************************************)
(* _plate_calc (src/app/api/v1/endpoints/tools.py), one position of the    *)
(* function per step.  Weights are grams, all inputs even, so that         *)
(* per_side is a whole number; the tolerance 0.001 kg is one gram.         *)
(***************************************************************************)
MaxResultLen == 8

Grams(kg) == kg * 1000

PlateBars == {Grams(20)}

PlateTargets == {Grams(10), Grams(20), Grams(25), Grams(30), Grams(45), Grams(60),
                 Grams(100)}

\* available_plates, parsed with float(): nothing rejects 0 or a negative
\* number
PlateChoices == SUBSET {Grams(20), Grams(5), 2500, 1250, 0, 0 - 2500}

TOLERANCE == 1

\* a remainder above MaxRemaining, which only a negative plate produces, is
\* kept as MaxRemaining: it exceeds every plate either way
MaxRemaining == 40000

RemainingKept(x) == IF x > MaxRemaining THEN MaxRemaining ELSE x

\* result.append(p): the model keeps the first MaxResultLen plates of the list
AppendKept(result, p) == IF Len(result) < MaxResultLen THEN Append(result, p) ELSE result

InitPlate ==
    /\ plateCall \in [pc : {"start"},
                      args : [bar : PlateBars, target : PlateTargets,
                              plates : PlateChoices]]
    /\ LogAtRest /\ PlateauAtRest /\ WorkoutAtRest /\ KcalAtRest /\ RmAtRest
    /\ DbAtRest /\ DetectAtRest /\ StreakAtRest /\ CalAtRest
    /\ BodyAtRest /\ RecAtRest

PlateFrame ==
    /\ UNCHANGED <<bodyLog, plateauCall, workout, kcalCall, rmCall>>
    /\ UNCHANGED prVars /\ UNCHANGED streakVars /\ UNCHANGED calVars
    /\ UNCHANGED bodyVars /\ UNCHANGED recVars

Returned(call, per_side, result) ==
    [pc |-> "done", args |-> call.args, per_side |-> per_side, result |-> result]

\* lines 35-42: load, the early return, per_side, the sorted plates
PlateStart ==
    /\ plateCall.pc = "start"
    /\ LET load == plateCall.args.target - plateCall.args.bar
       IN plateCall' =
            IF load <= 0
            THEN Returned(plateCall, 0, <<>>)
            ELSE [pc |-> "for", args |-> plateCall.args, per_side |-> load \div 2,
                  sorted_plates |-> SortDesc(plateCall.args.plates), i |-> 1,
                  remaining |-> load \div 2, result |-> <<>>]
    /\ PlateFrame

\* line 43: the next plate, or line 47: the return
PlateFor ==
    /\ plateCall.pc = "for"
    /\ plateCall' =
         IF plateCall.i > Len(plateCall.sorted_plates)
         THEN Returned(plateCall, plateCall.per_side, plateCall.result)
         ELSE [plateCall EXCEPT !.pc = "while"]
    /\ PlateFrame

\* line 44: while remaining >= p - 0.001
PlateWhile ==
    /\ plateCall.pc = "while"
    /\ LET p == plateCall.sorted_plates[plateCall.i]
       IN plateCall' =
            IF plateCall.remaining >= p - TOLERANCE
            THEN [plateCall EXCEPT !.pc = "body"]
            ELSE [plateCall EXCEPT !.pc = "for", !.i = @ + 1]
    /\ PlateFrame

\* lines 45-46
PlateBody ==
    /\ plateCall.pc = "body"
    /\ LET p == plateCall.sorted_plates[plateCall.i]
       IN plateCall' = [plateCall EXCEPT !.pc = "while",
                                         !.result = AppendKept(@, p),
                                         !.remaining = RemainingKept(@ - p)]
    /\ PlateFrame

NextPlate == PlateStart \/ PlateFor \/ PlateWhile \/ PlateBody

SpecPlate == InitPlate /\ [][NextPlate]_vars

\* the function runs on: a call that can take a step takes one
SpecPlateLive == SpecPlate /\ WF_vars(NextPlate)

PlateReturned == plateCall.pc = "done"

\* C29: _plate_calc terminates for every bar, target and list of plates
\* parsed from the request, a plate weight of 0 or a negative one included,
\* and returns a finite list.
C29_PlateCalcTerminates == <>PlateReturned

\* with positive plate weights only, the function returns
C29_TerminatesOnPositivePlates ==
    (\A p \in plateCall.args.plates : p > 0) => <>PlateReturned

\* target 25 kg on a 20 kg bar with plates 5 and 0: after the 2.5 kg per
\* side cannot take a 5 kg plate, the 0 kg plate is appended over and over
C29_ZeroPlateLoopSeen ==
    /\ plateCall.pc = "body"
    /\ plateCall.sorted_plates = <<Grams(5), 0>>
    /\ plateCall.i = 2
    /\ plateCall.remaining = 2500
    /\ plateCall.result = [k \in 1..MaxResultLen |-> 0]

(***************************************************************************)
(* Two add_set_to_workout requests served concurrently on a workout that   *)
(* is one set and one exercise short of its limits (SpecRace): the steps   *)
(* of SpecConc on the table NearLimits.                                    *)
(***************************************************************************)

\* exercise 1 has nine sets in workout 1; exercises 20 and 21 are not in it
RaceExercises == {1, 20, 21}

InitRace ==
    /\ sets = NearLimits
    /\ req = [p \in Procs |-> Idle]
    /\ resp = None
    /\ DetectAtRest /\ StreakAtRest /\ CalAtRest /\ BodyAtRest /\ RecAtRest
    /\ ApiAtRest

\* Lines 211-214: one request per client arrives and finds workout 1
BeginRace(p) ==
    /\ req[p].pc = "idle"
    /\ \E ex \in RaceExercises, weight \in ConcWeights :
          req' = [req EXCEPT ![p] =
                    [pc |-> "counts", workout_id |-> 1, exercise_id |-> ex,
                     weight |-> weight, reps |-> None, duration_seconds |-> None,
                     max_weight |-> 0, max_volume |-> 0, max_duration |-> 0,
                     row |-> None]]
    /\ UNCHANGED sets /\ Others

\* Lines 216-237 with the outcome kept: HTTP 400 ends the request
ReadCountsRace(p) ==
    /\ req[p].pc = "counts"
    /\ req' = [req EXCEPT ![p].pc =
                 IF LimitReached(n_exercises(sets, req[p].workout_id),
                                 n_sets_this_ex(sets, req[p].workout_id,
                                                req[p].exercise_id))
                 THEN "rejected"
                 ELSE "q_weight"]
    /\ UNCHANGED sets /\ Others

NextRace ==
    \E p \in Procs :
        \/ BeginRace(p)
        \/ ReadCountsRace(p)
        \/ QueryMaxWeight(p)
        \/ QueryMaxVolume(p)
        \/ QueryMaxDuration(p)
        \/ Flush(p)
        \/ Commit(p)

SpecRace == InitRace /\ [][NextRace]_vars

\* C30: the limits hold under concurrency: no interleaving of two add_set
\* requests on the same workout, each counting the stored sets before either
\* inserts, leaves more than 10 sets of one exercise or more than 20
\* distinct exercises in that workout.
C30_LimitsHoldConcurrently == WithinLimits(sets)

\* both requests counted nine sets of exercise 1 and both inserted: eleven
C30_ElevenSetsSeen ==
    /\ \A p \in Procs : req[p].pc = "done" /\ req[p].exercise_id = 1
    /\ n_sets_this_ex(sets, 1, 1) = 11

\* both requests counted nineteen exercises and each inserted a new one
C30_TwentyOneExercisesSeen ==
    /\ \A p \in Procs : req[p].pc = "done"
    /\ {req[p].exercise_id : p \in Procs} = {20, 21}
    /\ n_exercises(sets, 1) = 21

====
